---- MODULE Spec2Model ----
(***************************************************************************)
(* Blapy2: the page FSM (managerBlapy, run by the iFSM engine) and the     *)
(* merge engine (ProcessPageChange.pageLoaded) of src/core/Blapy2.js.      *)
(*                                                                         *)
(* The DOM under the root is a flat list of containers; a fragment is the  *)
(* list of the top-level containers of a response.  One JavaScript task is *)
(* one run of the FSM until its event queue is empty: timers, network      *)
(* callbacks and external triggers only act when the queue is empty.       *)
(***************************************************************************)
EXTENDS Integers, Sequences, FiniteSets, TLC

\* an attribute that is not set, a property that is undefined
NULL == "null"

\* the id of the root element of the Instance (this.myUIObjectID)
MyId == "app1"

\* the ids a data-blapy-applyon list or an aObjectId may name
AppIds == {"app1", "app2"}

----------------------------------------------------------------------------
(* The state of one Instance.                                              *)

VARIABLES
  fsmState,   \* the current state of the FSM (managerBlapy)
  queue,      \* the events the FSM still has to process in this task
  timers,     \* the delayed events (how_process_event.delay) not yet fired
  requests,   \* the main requests in flight (ajaxService.request)
  tplJobs,    \* the running setBlapyJsonTemplates calls
  templates,  \* TemplateManager.templates: the cached template files
  dom,        \* the live containers under the root
  baseHref,   \* the href of the document's <base> element, if any
  entered,    \* how many times each preparation state was entered
  trig,       \* every trigger raised so far, by its id
  notes,      \* how many of each notification were emitted
  cycle,      \* the fetch/merge cycle in progress or last finished
  call,       \* a call of a function of Utils or TemplateManager: its
              \* name, its argument, its result
  opts,       \* what the Instance was built with: animation, whether the
              \* Blapymotion extension is loaded (this.animation)
  tplLog,     \* per template file, how many ajaxService.get(tplFile) were
              \* issued and how many templates.set(tplFile, ...) were done
  instances,  \* the Blapy objects built so far on the elements of the page
  blapyInstance, \* per element, its _blapyInstance property: the index
              \* of a Blapy object, 0 when the property is not set
  socket,     \* the BlapySocket of the Instance: its allowedCommands, how
              \* many messages it received, the last one, what it did
  renders,    \* the callbacks of pageLoaded that await processJsonUpdate
              \* (todo), and what those of this cycle did (done)
  intervalsSet, \* BlapyBlock.intervalsSet: the setInterval timers running
  observers,  \* the IntersectionObservers created so far, each by the
              \* live elements it still observes
  listeners   \* per live container, how many click listeners its blapy
              \* link carries

vars == <<fsmState, queue, timers, requests, tplJobs, templates, dom,
          baseHref, entered, trig, notes, cycle, call, opts, tplLog,
          instances, blapyInstance, socket, renders, intervalsSet,
          observers, listeners>>

----------------------------------------------------------------------------
(* Containers.  inner is the element's content, one token per child;       *)
(* applyon is the split(',') list of data-blapy-applyon (<<>>: not set);   *)
(* bin is the payload of a child <xmp class="blapybin"> (<<>>: none);      *)
(* href is the data-blapy-href of a blapy link inside the element that is  *)
(* neither an A nor a FORM: 0 is the relative URL as written, k > 0 is the *)
(* URL with '#blapylink' appended and k base prefixes before it.           *)
(* json is what jsonFeatures.parse makes of the element's content: ok is   *)
(* FALSE when it throws, items is the array parsed (the blapy-data of an   *)
(* object that has blapy-container-name, which is wrap); html: the content *)
(* is an HTML fragment and ok, items, wrap are those of the content of its *)
(* first element.  jsonData is the array                                   *)
(* kept in data-blapy-json-data (<<>>: not set), appendStrategy is         *)
(* data-blapy-json-append-strategy, maxItems is what parseInt makes of     *)
(* data-blapy-json-max-items (0: not set, or not a number).  subs are the  *)
(* json blocks inside the content; tplSub is the json block the markup of  *)
(* the template holds (<<>>: none), which comes out once per object        *)
(* rendered.  time is data-blapy-updateblock-time and blapyHref the        *)
(* data-blapy-href of the container element itself; ondisplay is           *)
(* data-blapy-updateblock-ondisplay ("" when the attribute has no value),  *)
(* appear is data-blapy-appear; shown is how many triggers the visibility  *)
(* of this element has raised since it is in the document.  tpl is the     *)
(* template element of the container ("none": it has none); tplOthers      *)
(* counts the template elements of other blocks that the container holds   *)
(* among its children, ahead of its content.                               *)

\* no such link in the element
NoHref == -1

\* content that is not JSON text, as it is or taken as a fragment
NoJson == [ok |-> FALSE, items |-> <<>>, wrap |-> NULL, html |-> FALSE]

\* content that is the JSON text of an array
Json(items) == [ok |-> TRUE, items |-> items, wrap |-> NULL, html |-> FALSE]

\* the JSON text of {"blapy-container-name": name, "blapy-data": items}
Wrapped(name, items) == [Json(items) EXCEPT !.wrap = name]

\* an HTML fragment whose first element holds JSON text: <p>...</p>
InHtml(json) == [json EXCEPT !.html = TRUE]

Container(name, id, content, update, rule, applyon, inner) ==
  [name |-> name, id |-> id, content |-> content, update |-> update,
   rule |-> rule, applyon |-> applyon, inner |-> inner, bin |-> <<>>,
   tplId |-> NULL, tpl |-> "none", tplFile |-> NULL, init |-> NULL,
   href |-> NoHref, json |-> NoJson, jsonData |-> <<>>,
   appendStrategy |-> NULL, maxItems |-> 0, subs |-> <<>>, tplSub |-> <<>>,
   time |-> NULL, blapyHref |-> NULL, ondisplay |-> NULL, appear |-> NULL,
   shown |-> 0, tplOthers |-> 0]

\* the indices of the live containers, in document order (querySelectorAll)
LiveIdx(d) == DOMAIN d

----------------------------------------------------------------------------
(* Utils: the embedded-binary payload.  A string is a sequence of          *)
(* characters; btoa/atob are inverse bijections between byte strings and   *)
(* base64 text, so a payload is kept as the byte string it encodes, each   *)
(* byte written as the Latin-1 character atob gives back.                  *)

HexDigits == {"2", "5"}

\* the character a percent escape %ab stands for
PctChar(a, b) ==
  CASE <<a, b>> = <<"2", "2">> -> "quote"
    [] <<a, b>> = <<"2", "5">> -> "%"
    [] <<a, b>> = <<"5", "2">> -> "R"
    [] OTHER -> "U"

\* TextEncoder.encode: the UTF-8 bytes of one character
Utf8(ch) == IF ch = "eacute" THEN <<"Atilde", "copy">> ELSE <<ch>>

RECURSIVE utoa(_)
utoa(data) ==
  IF data = <<>> THEN <<>> ELSE Utf8(Head(data)) \o utoa(Tail(data))

\* decodeURIComponent: [ok |-> FALSE] is the URIError it throws
RECURSIVE decodeURIComponent(_)
decodeURIComponent(s) ==
  IF s = <<>> THEN [ok |-> TRUE, val |-> <<>>]
  ELSE IF Head(s) = "%"
       THEN IF Len(s) >= 3 /\ s[2] \in HexDigits /\ s[3] \in HexDigits
            THEN LET r == decodeURIComponent(SubSeq(s, 4, Len(s)))
                 IN  [ok |-> r.ok, val |-> <<PctChar(s[2], s[3])>> \o r.val]
            ELSE [ok |-> FALSE, val |-> <<>>]
       ELSE LET r == decodeURIComponent(Tail(s))
            IN  [ok |-> r.ok, val |-> <<Head(s)>> \o r.val]

atou(b64) == decodeURIComponent(b64)

----------------------------------------------------------------------------
(* The merge engine: ProcessPageChange.pageLoaded, one live container.     *)

\* the first container of the page with the live container's name, 0: none
aBlapyContainer(c, page) ==
  IF \E k \in DOMAIN page : page[k].name = c.name
  THEN CHOOSE k \in DOMAIN page :
         /\ page[k].name = c.name
         /\ \A j \in DOMAIN page : page[j].name = c.name => k <= j
  ELSE 0

\* the data-blapy-applyon filter: TRUE when the matched node is to be skipped
ApplyonRefuses(f, aObjectId) ==
  /\ f.applyon # <<>>
  /\ ~ \E k \in DOMAIN f.applyon : f.applyon[k] = aObjectId

RuleAttributeOnly(c, f) == c.rule = "local"

\* data-blapy-update-rule=local, or a json fragment for a non-json block
dataBlapyUpdateRuleIsLocal(c, f) ==
  \/ c.rule = "local"
  \/ (f.update = "json" /\ c.update # "json")

\* the strategy that is applied
dataBlapyUpdate(c, f) ==
  IF dataBlapyUpdateRuleIsLocal(c, f) THEN c.update ELSE f.update

\* the content fingerprints differ, or the update is forced
ContentChanged(c, f, params) ==
  f.content # c.content \/ params.forceUpdate = 1

\* myContainer.innerHTML = ... or myContainer.outerHTML = ...
Inner(c, f) == [c EXCEPT !.inner = f.inner, !.bin = f.bin, !.href = f.href,
                         !.json = f.json, !.subs = f.subs]

Put(c, f, local) == IF local THEN Inner(c, f) ELSE f

JsonStrategies == {"json", "json-append"}

\* the functions of the Blapymotion extension a strategy may name; they
\* end by oldContainer.replaceWith(newContainer)
PluginNames == {"fadeInOut", "rightOutIn"}

\* The items of a JSON array are objects {id, v}.  The ids: the number 0,
\* the number 1, the string "1".
Ids == {"n0", "n1", "s1"}

Item(id, v) == [id |-> id, v |-> v]

\* the value is truthy (0 is not)
Truthy(id) == id # "n0"

\* mergedData.some(item => item[uniqueKey] && newItem[uniqueKey] &&
\*                         item[uniqueKey] === newItem[uniqueKey])
Exists(mergedData, newItem) ==
  \E k \in DOMAIN mergedData :
    /\ Truthy(mergedData[k].id)
    /\ Truthy(newItem.id)
    /\ mergedData[k].id = newItem.id

\* appendStrategy unique: the loop over newItems
RECURSIVE PushUnique(_, _)
PushUnique(mergedData, newItems) ==
  IF newItems = <<>> THEN mergedData
  ELSE PushUnique(IF Exists(mergedData, Head(newItems)) THEN mergedData
                  ELSE Append(mergedData, Head(newItems)),
                  Tail(newItems))

\* the array before the cap is applied
MergedData(currentData, newJsonData, appendStrategy) ==
  IF appendStrategy = "start" THEN newJsonData \o currentData
  ELSE IF appendStrategy = "unique" THEN PushUnique(currentData, newJsonData)
  ELSE currentData \o newJsonData

NoSlice(mergedData, appendStrategy, maxItems) == mergedData

\* data-blapy-json-max-items: slice(0, maxItems) or slice(-maxItems)
Slice(mergedData, appendStrategy, maxItems) ==
  IF maxItems > 0 /\ Len(mergedData) > maxItems
  THEN IF appendStrategy = "start" THEN SubSeq(mergedData, 1, maxItems)
       ELSE SubSeq(mergedData, Len(mergedData) - maxItems + 1, Len(mergedData))
  ELSE mergedData

\* jsonFeatures.parse of a decoded payload: '[' ids ']' is an array of
\* objects, one per id
parseJsonText(text) ==
  IF /\ Len(text) >= 2 /\ text[1] = "[" /\ text[Len(text)] = "]"
     /\ \A k \in 2..(Len(text) - 1) : text[k] \in Ids
  THEN Json([k \in 1..(Len(text) - 2) |-> Item(text[k + 1], "p")])
  ELSE NoJson

\* the text pageLoaded and _extractAndParseJsonData read the JSON from, as
\* jsonFeatures.parse takes it: the decoded xmp.blapybin if there is one
\* (ok is FALSE too when atou throws), else the content of the node
jsonSource(f) ==
  IF f.bin # <<>>
  THEN LET dec == atou(f.bin)
       IN  IF dec.ok THEN parseJsonText(dec.val) ELSE NoJson
  ELSE f.json

\* json-append: the live container with its new data-blapy-json-data
jsonAppend(c, newJsonData) ==
  [c EXCEPT !.jsonData =
     Slice(MergedData(c.jsonData, newJsonData, c.appendStrategy),
           c.appendStrategy, c.maxItems)]

\* The merge of one live container c with the page.  gone: the node left the
\* DOM; merged: the matched node passed the applyon filter; job: the rest
\* of the merge is the asynchronous processJsonUpdate; swap: the node was
\* replaced or removed; done: the callback reached its last part
\* (setBlapyUpdateIntervals, setBlapyUpdateOnDisplay, setBlapyURL); strat:
\* the value of dataBlapyUpdate after the strategy is resolved; err: "logged"
\* when the callback reported an error to the logger, "thrown" when an
\* exception ended it (the promise of the async callback is rejected and
\* nobody handles it); steps: the notifications the callback dispatched
\* ("before", "after") and the writes it made to the live container
\* ("change"), in order; node: the id of myContainer at the end of the
\* callback, the parent's for remove.
MergeContainer(c, page, params) ==
  LET k     == aBlapyContainer(c, page)
      skip  == [c |-> c, gone |-> FALSE, merged |-> FALSE, job |-> FALSE,
                swap |-> FALSE, done |-> FALSE, strat |-> NULL, err |-> "none",
                steps |-> <<>>, node |-> NULL]
  IN
  IF k = 0 THEN skip
  ELSE IF ApplyonRefuses(page[k], params.blapyobjectid) THEN skip
  ELSE
    LET f0    == IF page[k].id = NULL THEN [page[k] EXCEPT !.id = c.id] ELSE page[k]
        strat == dataBlapyUpdate(c, f0)
        local == dataBlapyUpdateRuleIsLocal(c, f0)
        dec   == atou(f0.bin)
        unbin == strat # "json" /\ f0.bin # <<>>
        f     == IF unbin /\ dec.ok
                 THEN [f0 EXCEPT !.inner = dec.val, !.bin = <<>>] ELSE f0
        kept  == [skip EXCEPT !.merged = TRUE, !.strat = strat,
                              !.steps = <<"before">>, !.node = c.id]
        put(n) == [kept EXCEPT !.c = Put(c, n, local), !.swap = ~local,
                               !.done = TRUE, !.node = f0.id,
                               !.steps = <<"before", "change", "after">>]
        end   == [kept EXCEPT !.done = TRUE, !.steps = <<"before", "after">>]
    IN
    IF unbin /\ ~dec.ok                                           \* atou throws
      THEN [kept EXCEPT !.err = "thrown", !.steps = <<>>]
    ELSE IF strat \in {NULL, "update"}
      THEN IF ContentChanged(c, f, params) THEN put(f) ELSE end
    ELSE IF strat = "force-update" THEN put(f)
    ELSE IF strat = "append"
      THEN put([f EXCEPT !.inner = c.inner \o f.inner])
    ELSE IF strat = "prepend"
      THEN put([f EXCEPT !.inner = f.inner \o c.inner])
    ELSE IF strat = "json-append"
      THEN IF jsonSource(f0).ok /\ ~jsonSource(f0).html
           THEN [kept EXCEPT !.c = jsonAppend(c, jsonSource(f0).items),
                             !.job = TRUE, !.steps = <<"before", "change">>]
           ELSE [kept EXCEPT !.err = "logged"]      \* parse throws, return
    ELSE IF strat = "json"
      THEN [kept EXCEPT !.job = TRUE]
    ELSE IF strat = "replace"
      THEN [kept EXCEPT !.c = Inner(c, f), !.done = TRUE, !.node = f0.id,
                        !.steps = <<"before", "change", "after">>]
    ELSE IF strat = "custom" THEN end
    ELSE IF strat = "remove"
      THEN [end EXCEPT !.gone = TRUE, !.swap = TRUE, !.node = MyId,
                       !.steps = <<"before", "change", "after">>]
    ELSE IF ~opts.animation                \* animation[dataBlapyUpdate] throws
      THEN [kept EXCEPT !.err = "thrown"]
    ELSE IF strat \in PluginNames
      THEN IF ContentChanged(c, f, params)
           THEN [kept EXCEPT !.c = f, !.swap = TRUE, !.done = TRUE,
                             !.steps = <<"before", "change", "after">>]
           ELSE end
    ELSE [end EXCEPT !.err = "logged"]     \* a plugin name that does not exist

\* how many base prefixes the model tells apart
MaxPrefix == 3

\* a <base href> that is relative
RelBase == "./"

\* _normalizeHref on the data-blapy-href of a custom link
normalizeHref(href, base) ==
  IF href = NoHref THEN NoHref
  ELSE IF href = 0 THEN 1
  ELSE IF base = RelBase THEN IF href < MaxPrefix THEN href + 1 ELSE MaxPrefix
  ELSE href

\* setBlapyURL: every blapy link under the root, but those of the nodes
\* that left the document
setBlapyURL(d, gone, base) ==
  [i \in DOMAIN d |->
     IF i \in gone THEN d[i]
     ELSE [d[i] EXCEPT !.href = normalizeHref(@, base)]]

\* parseInt on the text of data-blapy-updateblock-time: nan when the text
\* does not begin with a number, or when the attribute is not set
parseInt(text) ==
  CASE text = "1000" -> [nan |-> FALSE, n |-> 1000]
    [] text = "0"    -> [nan |-> FALSE, n |-> 0]
    [] OTHER         -> [nan |-> TRUE, n |-> 0]

\* if (updateTime && href)
Polls(c) ==
  /\ ~parseInt(c.time).nan /\ parseInt(c.time).n # 0
  /\ c.blapyHref # NULL

\* the timers the forEach of setBlapyUpdateIntervals sets, from the i-th
\* block on: each by the name and the URL its callback triggers loadUrl with
RECURSIVE Intervals(_, _, _)
Intervals(d, gone, i) ==
  IF i > Len(d) THEN <<>>
  ELSE (IF i \notin gone /\ Polls(d[i])
        THEN << [name |-> d[i].name, href |-> d[i].blapyHref] >> ELSE <<>>)
       \o Intervals(d, gone, i + 1)

\* setBlapyUpdateIntervals without the clearInterval of the timers set before
setBlapyUpdateIntervals_NoClear(intervals, d, gone) ==
  intervals \o Intervals(d, gone, 1)

\* setBlapyUpdateIntervals: the timers of intervalsSet are cleared, the map
\* is emptied and one timer is set per block that has a time and a href
setBlapyUpdateIntervals(intervals, d, gone) == Intervals(d, gone, 1)

\* an observer that observes no element of the document any more is left out
Observing(obs) == SelectSeq(obs, LAMBDA o : o # {})

\* setBlapyUpdateOnDisplay: one new observer on every element that has
\* data-blapy-updateblock-ondisplay, none when there is no such element
setBlapyUpdateOnDisplay(obs, d, gone) ==
  LET elements == {i \in DOMAIN d : i \notin gone /\ d[i].ondisplay # NULL}
  IN  IF elements = {} THEN obs ELSE Append(obs, elements)

\* how many listeners on one link the model tells apart
MaxListeners == 2

\* _updateHref on the custom links: bL.addEventListener('click', ...)
updateHref(ls, d, gone) ==
  [i \in DOMAIN d |->
     IF i \notin gone /\ d[i].href # NoHref
     THEN IF ls[i] < MaxListeners THEN ls[i] + 1 ELSE MaxListeners
     ELSE ls[i]]

\* the listeners of the links of a prepared page: setBlapyURL ran once
Listening(d) == [i \in DOMAIN d |-> IF d[i].href > 0 THEN 1 ELSE 0]

\* The last part of the callback of pageLoaded for the container k.i:
\* setBlapyUpdateIntervals, setBlapyUpdateOnDisplay, setBlapyURL.  swap:
\* the element was replaced or removed, its observers hold the old node;
\* fresh: its content was replaced, the link in it is a new element.
PostMerge(ui, k) ==
  [intervals |-> setBlapyUpdateIntervals(ui.intervals, k.dom, k.gone),
   observers |-> setBlapyUpdateOnDisplay(
                   IF k.swap THEN [n \in DOMAIN ui.observers |->
                                     ui.observers[n] \ {k.i}]
                   ELSE ui.observers, k.dom, k.gone),
   listeners |-> updateHref(IF k.fresh THEN [ui.listeners EXCEPT ![k.i] = 0]
                            ELSE ui.listeners, k.dom, k.gone)]

RECURSIVE AfterCalls(_, _)
AfterCalls(ui, calls) ==
  IF calls = <<>> THEN ui
  ELSE AfterCalls(PostMerge(ui, Head(calls)), Tail(calls))

\* the nodes left in the document, in order
RECURSIVE Remaining(_, _)
Remaining(d, gone) ==
  IF d = <<>> THEN <<>>
  ELSE LET n == Len(d)
           r == Remaining(SubSeq(d, 1, n - 1), gone)
       IN  IF n \in gone THEN r ELSE Append(r, d[n])

\* the element of a set of one element
The(S) == CHOOSE x \in S : TRUE

\* no element has the id: document.getElementById gives null
NoElement == -1

\* document.getElementById(myContainer.id) at the end of the callback: the
\* first element of the document with the id, 0 for the root of the
\* Instance; no Blapy_afterContentChange without an id or an element
updatedElement(d, gone, id) ==
  LET found == {j \in DOMAIN d : j \notin gone /\ d[j].id = id}
  IN  IF id = NULL THEN NoElement
      ELSE IF id = MyId THEN 0
      ELSE IF found = {} THEN NoElement
      ELSE CHOOSE j \in found : \A k \in found : j <= k

\* The forEach over the live containers, from the i-th on.  acc is what the
\* callbacks before the i-th left: the document (the removed nodes still at
\* their place, listed in gone) and what the cycle is remembered by.
RECURSIVE MergeFrom(_, _, _, _, _)
MergeFrom(i, acc0, page, params, base) ==
  The({ IF i > Len(acc.dom) THEN acc
        ELSE The({ LET gone == acc.gone \cup (IF r.gone THEN {i} ELSE {})
                       d1   == [acc.dom EXCEPT ![i] = r.c]
                   IN  MergeFrom(i + 1,
                         [dom     |-> IF r.done THEN setBlapyURL(d1, gone, base)
                                      ELSE d1,
                          gone    |-> gone,
                          merged  |-> acc.merged \cup (IF r.merged THEN {i} ELSE {}),
                          swapped |-> acc.swapped \cup (IF r.swap THEN {i} ELSE {}),
                          jobs    |-> acc.jobs \cup (IF r.job THEN {i} ELSE {}),
                          applied |-> [acc.applied EXCEPT ![i] = r.strat],
                          logged  |-> acc.logged \cup (IF r.err = "logged" THEN {i} ELSE {}),
                          thrown  |-> acc.thrown \cup (IF r.err = "thrown" THEN {i} ELSE {}),
                          calls   |-> IF r.done
                                      THEN Append(acc.calls,
                                             [i |-> i, dom |-> d1, gone |-> gone,
                                              swap |-> r.swap,
                                              fresh |-> r.steps = <<"before", "change", "after">>])
                                      ELSE acc.calls,
                          steps   |-> [acc.steps EXCEPT ![i] = r.steps],
                          event   |-> [acc.event EXCEPT ![i] =
                                         IF r.done
                                         THEN updatedElement(d1, gone, r.node)
                                         ELSE NoElement]],
                         page, params, base)
                   : r \in {MergeContainer(acc.dom[i], page, params)} })
        : acc \in {acc0} })

\* The whole forEach: the DOM after the cycle.
MergePage(d, page, params, base) ==
  LET res == MergeFrom(1, [dom |-> d, gone |-> {}, merged |-> {},
                           swapped |-> {}, jobs |-> {}, logged |-> {},
                           thrown |-> {},
                           calls |-> <<>>,
                           steps |-> [i \in DOMAIN d |-> <<>>],
                           event |-> [i \in DOMAIN d |-> NoElement],
                           applied |-> [i \in DOMAIN d |-> NULL]],
                       page, params, base)
  IN  [res EXCEPT !.dom = Remaining(res.dom, res.gone)]

\* embedHTMLPage: the response wrapped in a copy of the named live block
Stamp(content) == IF content = "stampA" THEN "stampB" ELSE "stampA"

embedHTMLPage(aHtmlSource, aBlapyBlockIdName, d) ==
  LET named == {i \in DOMAIN d : d[i].name = aBlapyBlockIdName}
  IN  IF named = {} THEN <<>>
      ELSE LET i == CHOOSE x \in named : \A y \in named : x <= y
           IN  << [d[i] EXCEPT !.inner = <<>>, !.bin = utoa(aHtmlSource),
                               !.content = Stamp(d[i].content), !.id = NULL,
                               !.href = NoHref] >>

\* how many external triggers one behaviour raises
MaxTriggers == 2

PrepStates == {"PageLoaded", "PreparePage", "PreparePage_setBlapyJsonTemplates",
               "PreparePage_setBlapyUpdateOnDisplay"}

\* loadUrl and its synonyms (reloadBlock: 'loadUrl', ...)
FetchEvents == {"loadUrl", "postData", "updateBlock", "reloadBlock"}

Event(name, tid, data) == [name |-> name, tid |-> tid, data |-> data]

\* a response body or an html payload: its top-level containers and its
\* text outside containers; the empty string has neither
Body(page, text) == [page |-> page, text |-> text]
EmptyBody == Body(<<>>, <<>>)

\* the payload of a trigger; html = EmptyBody: no html property.  Of
\* data.params: blapyaction (NULL: not given) and one more parameter of the
\* caller, extra ("absent": not given, "null": given with the value null).
TriggerData(aUrl, aObjectId, method, html, embeddingBlockId, templateId) ==
  [aUrl |-> aUrl, aObjectId |-> aObjectId, method |-> method, html |-> html,
   embeddingBlockId |-> embeddingBlockId, templateId |-> templateId,
   forceUpdate |-> 0, blapyaction |-> NULL, extra |-> "absent"]

\* String.prototype.toUpperCase on a method name
toUpperCase(method) == IF method = "get" THEN "GET" ELSE method

NoDefault(blapyaction) == blapyaction

\* if (!params.blapyaction) params['blapyaction'] = 'update'
DefaultAction(blapyaction) ==
  IF blapyaction = NULL THEN "update" ELSE blapyaction

\* What PageReady.postData hands to ajaxService.request and what leaves
\* with xhr.send: enc is "query" when URLSearchParams(params) is appended
\* to the URL and "form" when _sendWithBody sends the body; pairs are the
\* key=value pairs that are sent.
RequestSent(data, aObjectId) ==
  LET method == IF data.method = NULL THEN "POST" ELSE data.method
      get    == toUpperCase(method) = "GET"
      fixed  == { <<"blapycall", "1">>,
                  <<"blapyaction", DefaultAction(data.blapyaction)>>,
                  <<"blapyobjectid", aObjectId>> }
      more   == IF data.extra = "absent" THEN {}
                ELSE IF data.extra = "null"
                THEN (IF get THEN { <<"extra", "null">> } ELSE {})
                ELSE { <<"extra", data.extra>> }
  IN  [method |-> toUpperCase(method),
       enc    |-> IF get THEN "query" ELSE "form",
       pairs  |-> fixed \cup more]

Min(a, b) == IF a < b THEN a ELSE b

\* a state is entered: the ghost counter of the preparation states
Enter(s) == IF s \in PrepStates
            THEN [entered EXCEPT ![s] = Min(@ + 1, 2)] ELSE entered

\* the FSM is idle and no microtask is due: the next task may start
Runnable(job) == ~job.fetching
Idle ==
  /\ queue = <<>>
  /\ \A k \in DOMAIN tplJobs : ~Runnable(tplJobs[k])
  /\ renders.todo = <<>>

----------------------------------------------------------------------------
(* Template preparation: Blapy.setBlapyJsonTemplates and                   *)
(* TemplateManager.setBlapyContainerJsonTemplate.  A job is one running    *)
(* call: todo are the json blocks still to prepare (the head is the one    *)
(* being prepared), each by its index, or by a copy of the node once the   *)
(* node has left the document; fetching: the call awaits a template file. *)

\* querySelectorAll('[data-blapy-update="json"]' + aEmbeddingBlock)
jsonBlocks(d, aEmbeddingBlock) ==
  {i \in DOMAIN d : /\ d[i].update = "json"
                    /\ (aEmbeddingBlock # NULL => d[i].name = aEmbeddingBlock)}

\* the same nodes, last in the document first
RECURSIVE LastFirst(_)
LastFirst(S) ==
  IF S = {} THEN <<>>
  ELSE LET m == CHOOSE x \in S : \A y \in S : x >= y
       IN  <<m>> \o LastFirst(S \ {m})

\* a NodeList: the nodes in document order
RECURSIVE SetToSeq(_)
SetToSeq(S) ==
  IF S = {} THEN <<>>
  ELSE LET m == CHOOSE x \in S : \A y \in S : x <= y
       IN  <<m>> \o SetToSeq(S \ {m})

TplEntry(i) == [i |-> i, det |-> FALSE, c |-> NULL, sub |-> 0]

\* the n-th json block inside the content of the i-th live container
SubEntry(i, n) == [i |-> i, det |-> FALSE, c |-> NULL, sub |-> n]

NewTplJob(d, forceReload, aEmbeddingBlock) ==
  [todo     |-> [k \in DOMAIN SetToSeq(jsonBlocks(d, aEmbeddingBlock)) |->
                   TplEntry(SetToSeq(jsonBlocks(d, aEmbeddingBlock))[k])],
   force    |-> forceReload,
   fetching |-> FALSE]

\* the node an entry stands for
EntryNode(e, d) ==
  IF e.det THEN e.c ELSE IF e.sub = 0 THEN d[e.i] ELSE d[e.i].subs[e.sub]

\* the node of an entry is written
WriteNode(e, d, c) ==
  IF e.det THEN d
  ELSE IF e.sub = 0 THEN [d EXCEPT ![e.i] = c]
  ELSE [d EXCEPT ![e.i].subs[e.sub] = c]

\* the container has no template child and no content
TplVoid(c) == c.tpl = "none" /\ c.inner = <<>> /\ c.bin = <<>>

\* setBlapyContainerJsonTemplate up to its await, or to its end.
\* fetch: it awaits the template file; init: it calls _initializeJsonBlock,
\* force: with forceReload true (only a block that has its template gets
\* that).
setBlapyContainerJsonTemplate(c, forceReload, cache) ==
  LET c1 == [c EXCEPT !.rule = "local"]
  IN  IF c.tpl = "none"
      THEN IF TplVoid(c)
           THEN IF c.tplFile # NULL /\ c.tplFile \notin cache
                THEN [c |-> c1, fetch |-> TRUE, init |-> FALSE, force |-> FALSE]
                ELSE IF c.tplFile # NULL
                THEN [c |-> [c1 EXCEPT !.tpl = "xmp"], fetch |-> FALSE,
                      init |-> TRUE, force |-> FALSE]
                ELSE [c |-> c1, fetch |-> FALSE, init |-> TRUE, force |-> FALSE]
           ELSE [c |-> [c1 EXCEPT !.tpl = "xmp", !.inner = <<>>, !.bin = <<>>,
                                  !.href = NoHref, !.subs = <<>>],
                 fetch |-> FALSE, init |-> TRUE, force |-> FALSE]
      ELSE [c |-> c1, fetch |-> FALSE, init |-> forceReload, force |-> TRUE]

\* the block waits for its display: it is flagged with a value and it has
\* not appeared
AwaitsDisplay(c) == c.ondisplay \notin {NULL, ""} /\ c.appear # "done"

\* _initializeJsonBlock: the postData it triggers for the init URL, if any
initializeJsonBlock(c, forceReload, tid) ==
  IF ~forceReload /\ AwaitsDisplay(c) THEN <<>>
  ELSE IF c.init # NULL
  THEN << Event("postData", tid,
                TriggerData(c.init, NULL, "GET", EmptyBody, c.name, NULL)) >>
  ELSE <<>>

IsSetEvent == Event("blapyJsonTemplatesIsSet", 0, NULL)

\* the template files the pages name
TplFiles == {"t.html", "u.html"}

\* nothing was fetched, nothing was cached
NoTplLog == [fetched |-> [f \in TplFiles |-> 0], written |-> [f \in TplFiles |-> 0]]

\* ajaxService.get(tplFile, ...) is called
Fetched(log, tplFile) ==
  IF tplFile = NULL THEN log ELSE [log EXCEPT !.fetched[tplFile] = Min(@ + 1, 3)]

\* this.templates.set(tplFile, htmlTplContent) is called
Written(log, tplFile) == [log EXCEPT !.written[tplFile] = Min(@ + 1, 3)]

\* One step of a job that is not fetching: the next block is prepared up to
\* its await, or, all blocks done, blapyJsonTemplatesIsSet is triggered.
JobStep(job, d, cache, tid) ==
  IF job.todo = <<>>
  THEN [done |-> TRUE, job |-> job, dom |-> d, events |-> <<IsSetEvent>>,
        file |-> NULL]
  ELSE LET e == Head(job.todo)
           r == setBlapyContainerJsonTemplate(EntryNode(e, d), job.force, cache)
       IN  IF r.fetch
           THEN [done |-> FALSE, job |-> [job EXCEPT !.fetching = TRUE],
                 dom |-> WriteNode(e, d, r.c), events |-> <<>>,
                 file |-> r.c.tplFile]
           ELSE [done |-> FALSE, job |-> [job EXCEPT !.todo = Tail(@)],
                 dom |-> WriteNode(e, d, r.c), file |-> NULL,
                 events |-> IF r.init
                            THEN initializeJsonBlock(r.c, r.force, tid)
                            ELSE <<>>]

\* the triggers among the events get their record
NewTrig(events, ext) ==
  [k \in DOMAIN events |->
     [name |-> events[k].name, ext |-> ext, deferred |-> FALSE, handled |-> 0]]

----------------------------------------------------------------------------
(* The pages of the model: the document the Instance is activated on, the  *)
(* bodies a server answers with, the payloads of the external triggers.    *)

BlockA == Container("a", "ida", "v1", "update", NULL, <<>>, <<"x">>)
BlockB == [Container("b", "idb", "v1", "update", NULL, <<>>, <<"x">>)
             EXCEPT !.href = 0]
BlockJ == [Container("j", "idj", "v1", "json", NULL, <<>>, <<>>)
             EXCEPT !.tplFile = "t.html", !.init = "init.json"]
BlockK == Container("k", "idk", "v1", "json", NULL, <<>>, <<"t">>)

BaseHrefs == {NULL, RelBase}

InitialDoms == { <<BlockA, BlockB>>, <<BlockA, BlockJ>>, <<BlockK, BlockJ>> }

\* fragments a server may answer with
FragA2  == Container("a", NULL, "v2", "update", NULL, <<>>, <<"y">>)
FragAOn == Container("a", NULL, "v2", "update", NULL, <<"app1">>, <<"y">>)

Bodies == { EmptyBody, Body(<<FragA2>>, <<>>), Body(<<>>, <<"y">>) }

\* the same, and JSON text
JsonBodies == Bodies \cup { Body(<<>>, <<"[", "n1", "]">>) }

\* what links, forms, refresh timers, visibility observers, navigate() and
\* remote commands raise on the FSM
ExternalEvents ==
  { Event("loadUrl", 0, TriggerData("u", MyId, NULL, EmptyBody, NULL, NULL)),
    Event("postData", 0, TriggerData("u", MyId, "POST", EmptyBody, "a", "t2")),
    Event("updateBlock", 0, TriggerData(NULL, NULL, NULL, Body(<<FragAOn>>, <<>>), NULL, NULL)),
    Event("updateBlock", 0, TriggerData(NULL, NULL, NULL, EmptyBody, NULL, NULL)),
    Event("reloadBlock", 0, TriggerData(NULL, NULL, NULL, EmptyBody, "j", NULL)) }

\* no function call is looked at
NoCall == [fn |-> NULL]

\* the commands _handleBlapyCommand knows
Commands == {"postData", "updateBlock", "reloadBlock", "loadUrl", "trigger"}

\* a BlapySocket with the given options.allowedCommands, before any message
\* and any connection.  sockets are the WebSocket objects it has created,
\* each "connecting", "open", "closing" or "closed"; ws is the index of
\* this.ws (0: null); disconnected tells that disconnect() was called and
\* the application has not called connect() since.
Socket(allowedCommands) ==
  [allowedCommands |-> allowedCommands, received |-> 0,
   last |-> [type |-> "none", command |-> "none"],
   warnings |-> 0, dispatched |-> 0,
   ws |-> 0, isConnected |-> FALSE, reconnectAttempts |-> 0,
   reconnectTimer |-> FALSE, sockets |-> <<>>, disconnected |-> FALSE]

\* the same once connect() was called and the connection is open
Connected(s) == [s EXCEPT !.ws = 1, !.isConnected = TRUE, !.sockets = <<"open">>]

\* no websocketOptions: the Instance has no BlapySocket
NoSocket == Socket({})

\* the elements of the page an application may activate
Elements == {"app1", "app2"}

\* the options an application may pass: {} or {debug: true}
OptionSets == {"none", "debug"}

\* new Blapy(element, options) followed by initApplication(): via tells
\* who built it, fsm whether iFSM was attached (initApplication returned
\* true)
Instance(root, options, via, fsm) ==
  [root |-> root, options |-> options, via |-> via, fsm |-> fsm]

\* the page of the FSM model: its root was activated once, by el.Blapy({})
OneInstance == << Instance("app1", "none", "Blapy", TRUE) >>
OneActivated == [e \in Elements |-> IF e = "app1" THEN 1 ELSE 0]

----------------------------------------------------------------------------
(* TemplateManager.processJsonUpdate and what the callback of pageLoaded   *)
(* does once the promise it awaits is settled.  A render is one callback   *)
(* that awaits: i is its live container, strat its strategy, f the node of *)
(* the page it merges, was the live container when the cycle began.  The   *)
(* timers are the callbacks _injectFinalHtml handed to setTimeout(..., 0), *)
(* each by the container whose content it wrote.                           *)

NoRenders == [todo |-> <<>>, done |-> <<>>, timers |-> <<>>]

\* _extractBlapyData: null is TRUE when it returns null
extractBlapyData(jsonDataObj, containerName) ==
  IF jsonDataObj.wrap # NULL
  THEN IF containerName # NULL /\ jsonDataObj.wrap # containerName
       THEN [null |-> TRUE, items |-> <<>>]
       ELSE [null |-> FALSE, items |-> jsonDataObj.items]
  ELSE [null |-> FALSE, items |-> jsonDataObj.items]

\* _getTemplate finds a template that is not void
getTemplate(c) == c.tpl # "none"

\* how many template elements of other blocks the model tells apart
MaxOthers == 3

\* template.allTemplates but the container's own: every element with
\* data-blapy-container-tpl under the container, those of the json blocks
\* of its content included
allTemplates(c) ==
  Min(c.tplOthers + Cardinality({k \in DOMAIN c.subs : c.subs[k].tpl # "none"}),
      MaxOthers)

\* _generateHtml: the template applied to each object of the data
Rendered(items) == [k \in DOMAIN items |-> items[k].id]

\* the json blocks of the rendered content: that of the template, once per
\* object
RenderedSubs(c, items) ==
  IF c.tplSub = <<>> THEN <<>> ELSE [k \in DOMAIN items |-> c.tplSub[1]]

\* processJsonUpdate on the live container c.  err: "logged" when an error
\* went to the logger, "warned" for the warning of _extractBlapyData; set:
\* _injectFinalHtml wrote the content.
processJsonUpdate(c, r) ==
  LET src  == IF r.strat = "json-append" THEN Json(c.jsonData)
              ELSE jsonSource(r.f)
      data == extractBlapyData(src, r.f.name)
      same == [c |-> c, err |-> "none", set |-> FALSE]
  IN  IF ~src.ok THEN [same EXCEPT !.err = "logged"]   \* both parses throw
      ELSE IF data.null THEN [same EXCEPT !.err = "warned"]
      ELSE IF ~getTemplate(c) THEN [same EXCEPT !.err = "logged"]
      ELSE [same EXCEPT !.c = [c EXCEPT !.inner = Rendered(data.items),
                                        !.bin = <<>>, !.href = NoHref,
                                        !.subs = RenderedSubs(c, data.items),
                                        !.tplOthers = allTemplates(c)],
                        !.set = TRUE]

\* the callbacks that await processJsonUpdate when pageLoaded returns, in
\* the order of the forEach; m is what MergePage gave for the document d
NewRenders(m, d, page) ==
  LET js == SetToSeq(m.jobs)
  IN  [k \in DOMAIN js |->
         [i     |-> js[k] - Cardinality({g \in m.gone : g < js[k]}),
          strat |-> m.applied[js[k]],
          f     |-> page[aBlapyContainer(d[js[k]], page)],
          was   |-> d[js[k]]]]

\* no params yet: no parameter is given
NoParams == [forceUpdate |-> 0, blapyobjectid |-> NULL]

NoCycle ==
  [phase |-> "none", tid |-> 0, kind |-> NULL, origin |-> NULL, before |-> <<>>, after |-> <<>>,
   errors |-> 0, page |-> <<>>, params |-> NoParams, merged |-> {}, gone |-> {},
   applied |-> <<>>, mbefore |-> <<>>, quiet |-> TRUE, logged |-> {},
   thrown |-> {}, steps |-> <<>>, event |-> <<>>]

\* a template job writes the document: a pending cycle is not alone on it
Disturbed(d) ==
  IF cycle.phase = "pending" /\ d # dom THEN [cycle EXCEPT !.quiet = FALSE]
  ELSE cycle

Init ==
  /\ fsmState = "DefaultState"
  /\ queue = << Event("start", 0, NULL) >>
  /\ timers = {}
  /\ requests = {}
  /\ tplJobs = <<>>
  /\ templates = {}
  /\ dom \in InitialDoms
  /\ baseHref \in BaseHrefs
  /\ entered = [s \in PrepStates |-> 0]
  /\ trig = <<>>
  /\ notes = [pageLoaded |-> 0, pageReady |-> 0]
  /\ cycle = NoCycle
  /\ call = NoCall
  /\ tplLog = NoTplLog
  /\ renders = NoRenders
  /\ intervalsSet = <<>>
  /\ observers = <<>>
  /\ listeners = [i \in DOMAIN dom |-> 0]
  /\ socket = NoSocket
  /\ instances = OneInstance
  /\ blapyInstance = OneActivated
  /\ opts = [animation |-> FALSE]

----------------------------------------------------------------------------
(* The FSM: one action per transition of managerBlapy.                     *)

Handles(state, name) == queue # <<>> /\ fsmState = state /\ Head(queue).name = name

IsTrigger(e) == e.name \in FetchEvents

EnterStateEvent == Event("enterState", 0, NULL)

\* PageReady.enterState: the page-ready notification
PageReadyEntered == [notes EXCEPT !.pageReady = Min(@ + 1, 2)]

\* DefaultState.start
Start ==
  /\ Handles("DefaultState", "start")
  /\ fsmState' = "PageLoaded"
  /\ entered' = Enter("PageLoaded")
  /\ queue' = <<EnterStateEvent>> \o Tail(queue)
  /\ UNCHANGED <<opts, renders, intervalsSet, observers, listeners, socket, instances, blapyInstance, tplLog, call, baseHref, timers, requests, tplJobs, templates, dom, trig, notes, cycle>>

PageLoaded_enterState ==
  /\ Handles("PageLoaded", "enterState")
  /\ notes' = [notes EXCEPT !.pageLoaded = Min(@ + 1, 2)]
  /\ fsmState' = "PreparePage"
  /\ entered' = Enter("PreparePage")
  /\ queue' = <<EnterStateEvent>> \o Tail(queue)
  /\ intervalsSet' = setBlapyUpdateIntervals(intervalsSet, dom, {})
  /\ UNCHANGED <<opts, renders, observers, listeners, socket, instances, blapyInstance, tplLog, call, baseHref, timers, requests, tplJobs, templates, dom, trig, cycle>>

PreparePage_enterState ==
  /\ Handles("PreparePage", "enterState")
  /\ queue' = << Event("setBlapyUrl", 0, NULL) >> \o Tail(queue)
  /\ UNCHANGED <<opts, renders, intervalsSet, observers, listeners, socket, instances, blapyInstance, tplLog, call, baseHref, fsmState, timers, requests, tplJobs, templates, dom, entered,
                 trig, notes, cycle>>

PreparePage_setBlapyUrl ==
  /\ Handles("PreparePage", "setBlapyUrl")
  /\ fsmState' = "PreparePage_setBlapyJsonTemplates"
  /\ entered' = Enter("PreparePage_setBlapyJsonTemplates")
  /\ dom' = setBlapyURL(dom, {}, baseHref)
  /\ listeners' = updateHref(listeners, dom, {})
  /\ queue' = <<EnterStateEvent>> \o Tail(queue)
  /\ UNCHANGED <<opts, renders, intervalsSet, observers, socket, instances, blapyInstance, tplLog, call, baseHref, timers, requests, tplJobs, templates, trig, notes, cycle>>

\* setBlapyJsonTemplates is called and runs up to its first await
StartTplJob(job, d) ==
  LET r == JobStep(job, d, templates, Len(trig) + 1)
  IN  /\ tplJobs' = IF r.done THEN tplJobs ELSE Append(tplJobs, r.job)
      /\ dom' = r.dom
      /\ queue' = Tail(queue) \o r.events
      /\ trig' = trig \o NewTrig(SelectSeq(r.events, IsTrigger), FALSE)
      /\ tplLog' = Fetched(tplLog, r.file)

PreparePage_setBlapyJsonTemplates_enterState ==
  /\ Handles("PreparePage_setBlapyJsonTemplates", "enterState")
  /\ StartTplJob(NewTplJob(dom, FALSE, NULL), dom)
  /\ fsmState' = "PreparePage_setBlapyUpdateOnDisplay"
  /\ entered' = Enter("PreparePage_setBlapyUpdateOnDisplay")
  /\ UNCHANGED <<opts, renders, intervalsSet, observers, listeners, socket, instances, blapyInstance, call, baseHref, timers, requests, templates, notes, cycle>>

PreparePage_setBlapyUpdateOnDisplay_blapyJsonTemplatesIsSet ==
  /\ Handles("PreparePage_setBlapyUpdateOnDisplay", "blapyJsonTemplatesIsSet")
  /\ fsmState' = "PageReady"
  /\ notes' = PageReadyEntered
  /\ queue' = Tail(queue)
  /\ observers' = setBlapyUpdateOnDisplay(observers, dom, {})
  /\ UNCHANGED <<opts, renders, intervalsSet, listeners, socket, instances, blapyInstance, tplLog, call, baseHref, timers, requests, tplJobs, templates, dom, entered, trig, cycle>>

\* how_process_event: {delay: 50, preventcancel: true}: the event waits for
\* its timer, whatever is delayed after it
DelayEvent(ts, ev) == ts \cup {ev}

Deferred(state) ==
  /\ queue # <<>> /\ fsmState = state /\ Head(queue).name \in FetchEvents
  /\ timers' = DelayEvent(timers, Head(queue))
  /\ trig' = [trig EXCEPT ![Head(queue).tid].deferred = TRUE]
  /\ queue' = Tail(queue)
  /\ UNCHANGED <<opts, renders, intervalsSet, observers, listeners, socket, instances, blapyInstance, tplLog, call, baseHref, fsmState, requests, tplJobs, templates, dom, entered, notes, cycle>>

PreparePage_setBlapyUpdateOnDisplay_loadUrl ==
  Deferred("PreparePage_setBlapyUpdateOnDisplay")

ProcessPageChange_loadUrl == Deferred("ProcessPageChange")

\* the delay is over: propagate_event: true triggers the event again
TimerFires ==
  /\ Idle
  /\ \E ev \in timers :
       /\ timers' = timers \ {ev}
       /\ queue' = <<ev>>
  /\ UNCHANGED <<opts, renders, intervalsSet, observers, listeners, socket, instances, blapyInstance, tplLog, call, baseHref, fsmState, requests, tplJobs, templates, dom, entered, trig,
                 notes, cycle>>

\* a trigger is handled by the transition of PageReady that bears its name
Handled(ev) ==
  IF ev.tid # 0 /\ trig[ev.tid].name = ev.name
  THEN [trig EXCEPT ![ev.tid].handled = Min(@ + 1, 2)] ELSE trig

PageReady_loadUrl ==
  /\ Handles("PageReady", "loadUrl")
  /\ LET ev == Head(queue)
     IN  /\ queue' = Tail(queue) \o
                       << Event("postData", ev.tid, [ev.data EXCEPT !.method = "GET"]) >>
         /\ trig' = Handled(ev)
  /\ UNCHANGED <<opts, renders, intervalsSet, observers, listeners, socket, instances, blapyInstance, tplLog, call, baseHref, fsmState, timers, requests, tplJobs, templates, dom, entered,
                 notes, cycle>>

\* setAttribute('data-blapy-template-default-id', templateId) on the blocks
SetTemplateId(d, S, templateId) ==
  [i \in DOMAIN d |-> IF i \in S THEN [d[i] EXCEPT !.tplId = templateId] ELSE d[i]]

Named(d, name) == {i \in DOMAIN d : d[i].name = name}

\* a cycle starts: what it is remembered by
NewCycle(ev, aObjectId) ==
  [NoCycle EXCEPT !.phase = "pending", !.tid = ev.tid, !.kind = ev.name,
                  !.origin = aObjectId,
                  !.before = dom]

PostDataStays == "PageReady"

\* the state PageReady.postData leaves the FSM in
PostDataNextState == "ProcessPageChange"

PageReady_postData ==
  /\ Handles("PageReady", "postData")
  /\ LET ev        == Head(queue)
         data      == ev.data
         aObjectId == IF data.aObjectId # NULL THEN data.aObjectId ELSE MyId
         embed     == data.embeddingBlockId
     IN  /\ dom' = IF embed # NULL /\ data.templateId # NULL
                   THEN SetTemplateId(dom, Named(dom, embed), data.templateId)
                   ELSE dom
         /\ requests' = requests \cup
               { [tid |-> ev.tid, aUrl |-> data.aUrl, embed |-> embed,
                  params |-> [forceUpdate |-> data.forceUpdate,
                              blapyobjectid |-> aObjectId],
                  given |-> [method |-> data.method,
                             blapyaction |-> data.blapyaction,
                             extra |-> data.extra],
                  sent |-> RequestSent(data, aObjectId)] }
         /\ cycle' = NewCycle(ev, aObjectId)
         /\ trig' = Handled(ev)
  /\ fsmState' = PostDataNextState
  /\ queue' = Tail(queue)
  /\ UNCHANGED <<opts, renders, intervalsSet, observers, listeners, socket, instances, blapyInstance, tplLog, call, baseHref, timers, tplJobs, templates, entered, notes>>

\* the pageLoaded event: the page to merge and the params of the cycle
PageLoadedEvent(tid, page, params) ==
  Event("pageLoaded", tid, [htmlPage |-> page, params |-> params])

\* the params PageReady.updateBlock hands to pageLoaded: data.params as given
UpdateBlockParams(data) ==
  [forceUpdate |-> data.forceUpdate, blapyobjectid |-> NULL]

\* updateBlock with both embeddingBlockId and templateId is not among the
\* triggers of the model.
PageReady_updateBlock ==
  /\ Handles("PageReady", "updateBlock")
  /\ LET ev    == Head(queue)
         data  == ev.data
         embed == data.embeddingBlockId
         page  == IF embed # NULL
                  THEN embedHTMLPage(data.html.text, embed, dom)
                  ELSE data.html.page
         error == IF data.html = EmptyBody
                  THEN << Event("errorOnLoadingPage", ev.tid, NULL) >> ELSE <<>>
     IN  /\ queue' = Tail(queue) \o error \o
                       << PageLoadedEvent(ev.tid, page, UpdateBlockParams(data)) >>
         /\ cycle' = NewCycle(ev, IF data.aObjectId # NULL THEN data.aObjectId ELSE MyId)
         /\ trig' = Handled(ev)
  /\ fsmState' = "ProcessPageChange"
  /\ UNCHANGED <<opts, renders, intervalsSet, observers, listeners, socket, instances, blapyInstance, tplLog, call, baseHref, timers, requests, tplJobs, templates, dom, entered, notes>>

PageReady_reloadBlock ==
  /\ Handles("PageReady", "reloadBlock")
  /\ LET ev    == Head(queue)
         embed == ev.data.embeddingBlockId
         d1    == IF ev.data.templateId # NULL
                  THEN SetTemplateId(dom, jsonBlocks(dom, embed), ev.data.templateId)
                  ELSE dom
         r     == JobStep(NewTplJob(d1, TRUE, embed), d1, templates, Len(trig) + 1)
     IN  /\ tplJobs' = IF r.done THEN tplJobs ELSE Append(tplJobs, r.job)
         /\ dom' = r.dom
         /\ queue' = Tail(queue) \o r.events
         /\ trig' = Handled(ev) \o NewTrig(SelectSeq(r.events, IsTrigger), FALSE)
         /\ tplLog' = Fetched(tplLog, r.file)
         /\ observers' = setBlapyUpdateOnDisplay(observers, r.dom, {})
  /\ UNCHANGED <<opts, renders, intervalsSet, listeners, socket, instances, blapyInstance, call, baseHref, fsmState, timers, requests, templates, entered, notes, cycle>>

\* the nodes replaced or removed by a merge leave the document: the jobs
\* and the timers that hold them, or a block inside them, keep the old node
DetachTodo(todo, swapped, gone, d) ==
  [n \in DOMAIN todo |->
     LET e == todo[n]
     IN  IF e.det THEN e
         ELSE IF e.i \in swapped
         THEN [e EXCEPT !.det = TRUE, !.c = EntryNode(e, d)]
         ELSE [e EXCEPT !.i = @ - Cardinality({g \in gone : g < e.i})]]

Detach(jobs, swapped, gone, d) ==
  [k \in DOMAIN jobs |->
     [jobs[k] EXCEPT !.todo = DetachTodo(@, swapped, gone, d)]]

\* _injectFinalHtml replaces the content of the i-th container: the jobs
\* that hold a block that was inside it keep the old node
DetachSubs(jobs, i, d) ==
  [k \in DOMAIN jobs |->
     [jobs[k] EXCEPT !.todo =
        [n \in DOMAIN jobs[k].todo |->
           LET e == jobs[k].todo[n]
           IN  IF ~e.det /\ e.i = i /\ e.sub # 0
               THEN [e EXCEPT !.det = TRUE, !.c = EntryNode(e, d)] ELSE e]]]

ProcessPageChange_pageLoaded ==
  /\ Handles("ProcessPageChange", "pageLoaded")
  /\ \E data \in {Head(queue).data} :
     \E m \in {MergePage(dom, data.htmlPage, data.params, baseHref)} :
         /\ dom' = m.dom
         /\ tplJobs' = Detach(tplJobs, m.swapped, m.gone, dom)
         /\ renders' = [todo   |-> NewRenders(m, dom, data.htmlPage),
                        done   |-> <<>>,
                        timers |-> DetachTodo(renders.timers, m.swapped,
                                              m.gone, dom)]
         /\ cycle' = [cycle EXCEPT !.phase = "merged", !.page = data.htmlPage,
                                   !.params = data.params, !.merged = m.merged,
                                   !.gone = m.gone, !.applied = m.applied,
                                   !.logged = m.logged, !.thrown = m.thrown,
                                   !.mbefore = dom, !.after = m.dom,
                                   !.steps = m.steps, !.event = m.event]
         /\ \E ui \in {AfterCalls([intervals |-> intervalsSet,
                                   observers |-> observers,
                                   listeners |-> listeners], m.calls)} :
              /\ intervalsSet' = ui.intervals
              /\ observers' = Observing(
                    [n \in DOMAIN ui.observers |->
                       {i - Cardinality({g \in m.gone : g < i}) :
                          i \in ui.observers[n]}])
              /\ listeners' = Remaining(ui.listeners, m.gone)
  /\ fsmState' = "PageReady"
  /\ notes' = PageReadyEntered
  /\ queue' = Tail(queue)
  /\ UNCHANGED <<opts, socket, instances, blapyInstance, tplLog, call, baseHref, timers, requests, templates, entered, trig>>

ErrorRestarts == "PageLoaded"

\* the state ProcessPageChange.errorOnLoadingPage leaves the FSM in
ErrorNextState == "PageReady"

ProcessPageChange_errorOnLoadingPage ==
  /\ Handles("ProcessPageChange", "errorOnLoadingPage")
  /\ cycle' = [cycle EXCEPT !.phase = "failed", !.errors = Min(@ + 1, 2),
                            !.after = dom]
  /\ fsmState' = ErrorNextState
  /\ notes' = PageReadyEntered
  /\ queue' = Tail(queue)
  /\ UNCHANGED <<opts, renders, intervalsSet, observers, listeners, socket, instances, blapyInstance, tplLog, call, baseHref, timers, requests, tplJobs, templates, dom, entered, trig>>

\* the events a state defines a transition for
Defined(state, name) ==
  CASE state = "DefaultState" -> name = "start"
    [] state = "PageLoaded" -> name = "enterState"
    [] state = "PreparePage" -> name \in {"enterState", "setBlapyUrl"}
    [] state = "PreparePage_setBlapyJsonTemplates" -> name = "enterState"
    [] state = "PreparePage_setBlapyUpdateOnDisplay" ->
         name \in FetchEvents \cup {"blapyJsonTemplatesIsSet"}
    [] state = "PageReady" -> name \in FetchEvents
    [] state = "ProcessPageChange" ->
         name \in FetchEvents \cup {"pageLoaded", "errorOnLoadingPage"}
    [] OTHER -> FALSE

\* an event the current state defines no transition for is not processed
EventNotDefined ==
  /\ queue # <<>>
  /\ ~Defined(fsmState, Head(queue).name)
  /\ queue' = Tail(queue)
  /\ UNCHANGED <<opts, renders, intervalsSet, observers, listeners, socket, instances, blapyInstance, tplLog, call, baseHref, fsmState, timers, requests, tplJobs, templates, dom, entered,
                 trig, notes, cycle>>

----------------------------------------------------------------------------
(* What happens between the runs of the FSM: the promise of the main       *)
(* request settles, a template job goes on, a trigger is raised.           *)

\* ajaxService.request(...).then: a 2xx response
Resolved(bodies) ==
  /\ Idle
  /\ \E r \in requests, body \in bodies :
       /\ r.aUrl # NULL
       /\ r.embed # NULL => body.page = <<>>
       /\ requests' = requests \ {r}
       /\ queue' = IF body = EmptyBody THEN <<>>
                   ELSE << PageLoadedEvent(r.tid,
                             IF r.embed # NULL
                             THEN embedHTMLPage(body.text, r.embed, dom)
                             ELSE body.page,
                             r.params) >>
  /\ UNCHANGED <<opts, renders, intervalsSet, observers, listeners, socket, instances, blapyInstance, tplLog, call, baseHref, fsmState, timers, tplJobs, templates, dom, entered, trig,
                 notes, cycle>>

RequestResolved == Resolved(Bodies)

\* the same where servers answer with JSON text too
RequestResolvedJson == Resolved(JsonBodies)

\* ajaxService.request(...).catch: non-2xx, network error, timeout, no URL
RequestRejected ==
  /\ Idle
  /\ \E r \in requests :
       /\ requests' = requests \ {r}
       /\ queue' = << Event("errorOnLoadingPage", r.tid, NULL) >>
  /\ UNCHANGED <<opts, renders, intervalsSet, observers, listeners, socket, instances, blapyInstance, tplLog, call, baseHref, fsmState, timers, tplJobs, templates, dom, entered, trig,
                 notes, cycle>>

RemoveAt(seq, k) == SubSeq(seq, 1, k - 1) \o SubSeq(seq, k + 1, Len(seq))

\* setBlapyJsonTemplates goes on after an await
setBlapyJsonTemplates ==
  /\ queue = <<>>
  /\ \E k \in DOMAIN tplJobs :
       /\ Runnable(tplJobs[k])
       /\ LET r == JobStep(tplJobs[k], dom, templates, Len(trig) + 1)
          IN  /\ tplJobs' = IF r.done THEN RemoveAt(tplJobs, k)
                            ELSE [tplJobs EXCEPT ![k] = r.job]
              /\ dom' = r.dom
              /\ cycle' = Disturbed(r.dom)
              /\ queue' = r.events
              /\ trig' = trig \o NewTrig(SelectSeq(r.events, IsTrigger), FALSE)
              /\ tplLog' = Fetched(tplLog, r.file)
  /\ UNCHANGED <<opts, renders, intervalsSet, observers, listeners, socket, instances, blapyInstance, call, baseHref, fsmState, timers, requests, templates, entered, notes>>

\* ajaxService.get(tplFile) answers: the template is put in the block and
\* in the cache, the block is initialised
TemplateFetched ==
  /\ Idle
  /\ \E k \in DOMAIN tplJobs :
       /\ tplJobs[k].fetching
       /\ LET e  == Head(tplJobs[k].todo)
              c  == [EntryNode(e, dom) EXCEPT !.tpl = "xmp", !.inner = <<>>,
                                              !.bin = <<>>, !.href = NoHref,
                                              !.subs = <<>>]
              ev == initializeJsonBlock(c, FALSE, Len(trig) + 1)
          IN  /\ dom' = WriteNode(e, dom, c)
              /\ cycle' = Disturbed(WriteNode(e, dom, c))
              /\ templates' = templates \cup {c.tplFile}
              /\ tplLog' = Written(tplLog, c.tplFile)
              /\ tplJobs' = [tplJobs EXCEPT ![k].fetching = FALSE, ![k].todo = Tail(@)]
              /\ queue' = ev
              /\ trig' = trig \o NewTrig(ev, FALSE)
  /\ UNCHANGED <<opts, renders, intervalsSet, observers, listeners, socket, instances, blapyInstance, call, baseHref, fsmState, timers, requests, entered, notes>>

\* ajaxService.get(tplFile) fails: the await throws, the call ends there
TemplateFetchFailed ==
  /\ Idle
  /\ \E k \in DOMAIN tplJobs :
       /\ tplJobs[k].fetching
       /\ tplJobs' = RemoveAt(tplJobs, k)
  /\ UNCHANGED <<opts, renders, intervalsSet, observers, listeners, socket, instances, blapyInstance, tplLog, call, baseHref, fsmState, queue, timers, requests, templates, dom, entered,
                 trig, notes, cycle>>

\* A callback of pageLoaded goes on: processJsonUpdate runs to its end, the
\* promise is settled and the callback does its last part
\* (setBlapyUpdateIntervals, setBlapyUpdateOnDisplay, setBlapyURL).
TemplateManager_processJsonUpdate ==
  /\ queue = <<>>
  /\ renders.todo # <<>>
  /\ \E r \in {Head(renders.todo)} :
     \E o \in {processJsonUpdate(dom[r.i], r)} :
       /\ dom' = setBlapyURL([dom EXCEPT ![r.i] = o.c], {}, baseHref)
       /\ tplJobs' = IF o.set THEN DetachSubs(tplJobs, r.i, dom) ELSE tplJobs
       /\ renders' = [todo   |-> Tail(renders.todo),
                      done   |-> Append(renders.done,
                                   [i |-> r.i, strat |-> r.strat, err |-> o.err,
                                    set |-> o.set, was |-> r.was,
                                    steps |-> IF o.set
                                              THEN <<"change", "after">>
                                              ELSE <<"after">>,
                                    event |-> updatedElement(dom', {},
                                                             dom[r.i].id)]),
                      timers |-> IF o.set
                                 THEN Append(renders.timers, TplEntry(r.i))
                                 ELSE renders.timers]
       /\ \E ui \in {PostMerge([intervals |-> intervalsSet,
                                  observers |-> observers,
                                  listeners |-> listeners],
                                 [i |-> r.i, dom |-> [dom EXCEPT ![r.i] = o.c],
                                  gone |-> {}, swap |-> FALSE,
                                  fresh |-> o.set])} :
            /\ intervalsSet' = ui.intervals
            /\ observers' = ui.observers
            /\ listeners' = ui.listeners
  /\ UNCHANGED <<opts, socket, instances, blapyInstance, tplLog, call, baseHref, fsmState, queue, timers, requests, templates,
                 entered, trig, notes, cycle>>

ToSetEvent == Event("blapyJsonTemplatesToSet", 0, NULL)

\* the loop of the timer of _injectFinalHtml over the json blocks inside the
\* node: a call of setBlapyContainerJsonTemplate for each, awaited
SubTplJob(e, node) ==
  [todo     |-> [n \in DOMAIN node.subs |->
                   IF e.det
                   THEN [i |-> e.i, det |-> TRUE, c |-> node.subs[n], sub |-> n]
                   ELSE SubEntry(e.i, n)],
   force    |-> FALSE,
   fetching |-> FALSE]

\* The timer of _injectFinalHtml fires: with no json block inside the
\* container, blapyJsonTemplatesIsSet is triggered; else
\* blapyJsonTemplatesToSet is, and the loop runs up to its first await.
TemplateManager_injectFinalHtml_setTimeout ==
  /\ Idle
  /\ renders.timers # <<>>
  /\ \E e \in {Head(renders.timers)} :
     \E node \in {EntryNode(e, dom)} :
       IF node.subs = <<>>
       THEN /\ queue' = <<IsSetEvent>>
            /\ UNCHANGED <<tplJobs, dom, trig, tplLog>>
       ELSE \E r \in {JobStep(SubTplJob(e, node), dom, templates, Len(trig) + 1)} :
              /\ tplJobs' = IF r.done THEN tplJobs ELSE Append(tplJobs, r.job)
              /\ dom' = r.dom
              /\ queue' = <<ToSetEvent>> \o r.events
              /\ trig' = trig \o NewTrig(SelectSeq(r.events, IsTrigger), FALSE)
              /\ tplLog' = Fetched(tplLog, r.file)
  /\ renders' = [renders EXCEPT !.timers = Tail(@)]
  /\ UNCHANGED <<opts, intervalsSet, observers, listeners, socket, instances, blapyInstance, call, baseHref, fsmState, timers, requests, templates, entered, notes,
                 cycle>>

ExternalCount == Cardinality({t \in DOMAIN trig : trig[t].ext})

\* an observerCallback that does not look at data-blapy-appear
hasAppeared_Never(el) == FALSE

\* el.hasAttribute('data-blapy-appear')
hasAppeared(el) == el.appear # NULL

\* what observerCallback triggers for an element that appears
AppearEvents(el, tid) ==
  IF el.blapyHref # NULL
  THEN << Event("loadUrl", tid,
                TriggerData(el.blapyHref, MyId, NULL, EmptyBody, NULL, NULL)) >>
  ELSE IF el.init # NULL
  THEN << Event("reloadBlock", tid,
                TriggerData(NULL, NULL, NULL, EmptyBody, el.name, NULL)) >>
  ELSE <<>>

\* observerCallback for one entry that isIntersecting: an element that an
\* observer observes enters the viewport
IntersectionObserver_callback ==
  /\ Idle
  /\ \E n \in DOMAIN observers : \E i \in observers[n] :
     \E ev \in {IF hasAppeared(dom[i]) THEN <<>>
                ELSE AppearEvents(dom[i], Len(trig) + 1)} :
     \E d \in {IF hasAppeared(dom[i]) THEN dom
               ELSE [dom EXCEPT ![i].appear = "done",
                                ![i].shown = @ + Len(ev)]} :
       /\ ev # <<>> => ExternalCount < MaxTriggers
       /\ dom' = d
       /\ cycle' = Disturbed(d)
       /\ queue' = ev
       /\ trig' = trig \o NewTrig(ev, TRUE)
       /\ observers' = Observing([observers EXCEPT ![n] = @ \ {i}])
  /\ UNCHANGED <<opts, renders, intervalsSet, listeners, socket, instances, blapyInstance, tplLog, call, baseHref, fsmState, timers, requests, tplJobs,
                 templates, entered, notes>>

\* a link, a form, a refresh timer, an observer or a remote command
\* triggers an event on the FSM
ExternalTrigger ==
  /\ Idle
  /\ ExternalCount < MaxTriggers
  /\ \E e \in ExternalEvents :
       /\ queue' = << Event(e.name, Len(trig) + 1, e.data) >>
       /\ trig' = trig \o NewTrig(<<e>>, TRUE)
  /\ UNCHANGED <<opts, renders, intervalsSet, observers, listeners, socket, instances, blapyInstance, tplLog, call, baseHref, fsmState, timers, requests, tplJobs, templates, dom, entered,
                 notes, cycle>>

Next ==
  \/ Start
  \/ PageLoaded_enterState
  \/ PreparePage_enterState
  \/ PreparePage_setBlapyUrl
  \/ PreparePage_setBlapyJsonTemplates_enterState
  \/ PreparePage_setBlapyUpdateOnDisplay_blapyJsonTemplatesIsSet
  \/ PreparePage_setBlapyUpdateOnDisplay_loadUrl
  \/ ProcessPageChange_loadUrl
  \/ TimerFires
  \/ PageReady_loadUrl
  \/ PageReady_postData
  \/ PageReady_updateBlock
  \/ PageReady_reloadBlock
  \/ ProcessPageChange_pageLoaded
  \/ ProcessPageChange_errorOnLoadingPage
  \/ EventNotDefined
  \/ RequestResolved
  \/ RequestRejected
  \/ setBlapyJsonTemplates
  \/ TemplateFetched
  \/ TemplateFetchFailed
  \/ TemplateManager_processJsonUpdate
  \/ ExternalTrigger

Spec == Init /\ [][Next]_vars

\* one run of the FSM on the head of its queue
FsmStep ==
  \/ Start
  \/ PageLoaded_enterState
  \/ PreparePage_enterState
  \/ PreparePage_setBlapyUrl
  \/ PreparePage_setBlapyJsonTemplates_enterState
  \/ PreparePage_setBlapyUpdateOnDisplay_blapyJsonTemplatesIsSet
  \/ PreparePage_setBlapyUpdateOnDisplay_loadUrl
  \/ ProcessPageChange_loadUrl
  \/ PageReady_loadUrl
  \/ PageReady_postData
  \/ PageReady_updateBlock
  \/ PageReady_reloadBlock
  \/ ProcessPageChange_pageLoaded
  \/ ProcessPageChange_errorOnLoadingPage
  \/ EventNotDefined

\* what the environment owes: each request and each template fetch ends
\* (with a response or an error), each microtask runs
Pending ==
  \/ RequestResolved
  \/ RequestRejected
  \/ setBlapyJsonTemplates
  \/ TemplateFetched
  \/ TemplateFetchFailed
  \/ TemplateManager_processJsonUpdate

\* The event loop runs the FSM on every event, every timer fires, and what
\* is pending ends, even when timers keep firing meanwhile.  Nothing obliges
\* anyone to raise a trigger.
Fairness ==
  /\ WF_vars(FsmStep)
  /\ SF_vars(TimerFires)
  /\ SF_vars(Pending)

FairSpec == Init /\ [][Next]_vars /\ Fairness

----------------------------------------------------------------------------
(* The merge engine alone: a response arrives for a cycle in progress, for *)
(* any live document, any page and any params of the sets below.           *)

Strategies == {NULL, "update", "force-update", "append", "prepend",
               "json-append", "replace", "custom", "remove", "json", "fade",
               "fadeInOut"}

\* the live container named a: what activation leaves (the json blocks have
\* data-blapy-update-rule=local, the links are normalised)
LiveAs ==
  { [Container("a", "ida", "v1", u, r, <<>>, <<"x">>) EXCEPT !.href = h] :
      u \in Strategies, r \in {NULL, "local"}, h \in {NoHref, 1} }
  \ { [Container("a", "ida", "v1", "json", NULL, <<>>, <<"x">>)
        EXCEPT !.href = h] : h \in {NoHref, 1} }

LiveB == [BlockB EXCEPT !.href = 1]

\* the nodes named a of a page
FragAs ==
  { Container("a", NULL, v, u, NULL, ap, <<"y">>) :
      u \in Strategies, v \in {"v1", "v2"}, ap \in {<<>>, <<"app1">>} }
  \cup { [Container("a", NULL, "v2", "update", NULL, <<>>, <<>>) EXCEPT !.bin = b] :
           b \in {<<"z">>, <<"%", "z">>} }
  \cup { Container("a", NULL, "v2", "update", NULL, <<"app2", "app1">>, <<"y">>) }

FragB == Container("b", NULL, "v2", "update", NULL, <<>>, <<"y">>)

MergePages ==
  { <<>>, <<FragB>>, <<FragA2, Container("a", NULL, "v3", "remove", NULL, <<>>, <<>>)>> }
  \cup { <<f>> : f \in FragAs } \cup { <<f, FragB>> : f \in FragAs }

MergeParams ==
  { [forceUpdate |-> fu, blapyobjectid |-> id] : fu \in {0, 1}, id \in AppIds }

InitMerge ==
  /\ fsmState = "ProcessPageChange"
  /\ \E page \in MergePages, params \in MergeParams, a \in LiveAs :
       /\ queue = << PageLoadedEvent(1, page, params) >>
       /\ dom = <<a, LiveB>>
       /\ cycle = [NoCycle EXCEPT !.phase = "pending", !.tid = 1,
                                  !.kind = "postData",
                                  !.origin = params.blapyobjectid,
                                  !.before = <<a, LiveB>>]
  /\ baseHref \in BaseHrefs
  /\ timers = {}
  /\ requests = {}
  /\ tplJobs = <<>>
  /\ templates = {}
  /\ entered = [s \in PrepStates |-> 1]
  /\ trig = << [name |-> "postData", ext |-> TRUE, deferred |-> FALSE, handled |-> 1] >>
  /\ notes = [pageLoaded |-> 1, pageReady |-> 1]
  /\ call = NoCall
  /\ tplLog = NoTplLog
  /\ renders = NoRenders
  /\ intervalsSet = setBlapyUpdateIntervals(<<>>, dom, {})
  /\ observers = setBlapyUpdateOnDisplay(<<>>, dom, {})
  /\ listeners = Listening(dom)
  /\ socket = NoSocket
  /\ instances = OneInstance
  /\ blapyInstance = OneActivated
  /\ opts \in [animation : BOOLEAN]

NextMerge ==
  \/ ProcessPageChange_pageLoaded
  \/ TemplateManager_processJsonUpdate

SpecMerge == InitMerge /\ [][NextMerge]_vars

----------------------------------------------------------------------------
(* json-append alone: an Instance in PageReady with one json-append        *)
(* container, and update commands that bring batches of items for it.      *)

\* the items a batch is made of
Items == { Item("n0", "p"), Item("n1", "p"), Item("s1", "p"), Item("n1", "q") }

\* the batches: JSON arrays of at most two items
Batches ==
  { <<>> } \cup { <<a>> : a \in Items } \cup { <<a, b>> : a \in Items, b \in Items }

\* the live json-append container, as the page declares it
LiveLs ==
  { [Container("l", "idl", "v1", "json-append", NULL, <<>>, <<>>)
       EXCEPT !.appendStrategy = st, !.maxItems = n] :
      st \in {NULL, "start", "unique", "end"}, n \in {0, 1, 2} }

\* the node a server or a remote command sends for it
FragL(json) ==
  [Container("l", NULL, "v2", "json-append", NULL, <<>>, <<>>) EXCEPT !.json = json]

AppendEvents ==
  { Event("updateBlock", 0,
          TriggerData(NULL, NULL, NULL, Body(<<FragL(j)>>, <<>>), NULL, NULL)) :
      j \in { Json(b) : b \in Batches } \cup { NoJson } }

InitAppend ==
  /\ fsmState = "PageReady"
  /\ queue = <<>>
  /\ timers = {}
  /\ requests = {}
  /\ tplJobs = <<>>
  /\ templates = {}
  /\ \E l \in LiveLs : dom = <<l>>
  /\ baseHref = NULL
  /\ entered = [s \in PrepStates |-> 1]
  /\ trig = <<>>
  /\ notes = [pageLoaded |-> 1, pageReady |-> 1]
  /\ cycle = NoCycle
  /\ call = NoCall
  /\ tplLog = NoTplLog
  /\ renders = NoRenders
  /\ intervalsSet = setBlapyUpdateIntervals(<<>>, dom, {})
  /\ observers = setBlapyUpdateOnDisplay(<<>>, dom, {})
  /\ listeners = Listening(dom)
  /\ socket = NoSocket
  /\ instances = OneInstance
  /\ blapyInstance = OneActivated
  /\ opts = [animation |-> FALSE]

\* a remote command or user code triggers updateBlock with a batch
AppendTrigger ==
  /\ Idle
  /\ ExternalCount < MaxTriggers
  /\ \E e \in AppendEvents :
       /\ queue' = << Event(e.name, Len(trig) + 1, e.data) >>
       /\ trig' = trig \o NewTrig(<<e>>, TRUE)
  /\ UNCHANGED <<opts, renders, intervalsSet, observers, listeners, socket, instances, blapyInstance, tplLog, call, baseHref, fsmState, timers, requests, tplJobs, templates, dom, entered,
                 notes, cycle>>

NextAppend ==
  \/ AppendTrigger
  \/ PageReady_updateBlock
  \/ ProcessPageChange_pageLoaded
  \/ TemplateManager_processJsonUpdate

SpecAppend == InitAppend /\ [][NextAppend]_vars

----------------------------------------------------------------------------
(* The functions of Utils and TemplateManager on their own: a call is      *)
(* drawn from the inputs below and the function is applied to it.         *)

\* the longest string, array or list of names of the inputs
MaxLen == 3

\* the sequences over S of at most n elements
SeqsUpTo(S, n) == UNION { [1..k -> S] : k \in 0..n }

\* the characters of the strings that are encoded
Chars == {"a", "%", "eacute", "2", "5"}

\* blapyIndex is undefined
NoIndex == -1

\* The elements of an array dataset: blapyIndex (9: an index the data came
\* with), blapyFirst and blapyLast (FALSE: not set).
Elems == [blapyIndex : {NoIndex, 9}, blapyFirst : BOOLEAN, blapyLast : BOOLEAN]

OverwriteIndices(jsonDataObj) ==
  [jsonDataObj EXCEPT !.items =
     [i \in DOMAIN @ |-> [@[i] EXCEPT !.blapyIndex = i]]]

\* _addBlapyIndices on an array; length is 0: the array itself gets
\* blapyIndex = 0
addBlapyIndices(jsonDataObj) ==
  IF Len(jsonDataObj.items) > 0
  THEN [jsonDataObj EXCEPT !.items =
          [i \in DOMAIN @ |->
             [blapyIndex |-> IF @[i].blapyIndex = NoIndex THEN i
                             ELSE @[i].blapyIndex,
              blapyFirst |-> @[i].blapyFirst \/ i = 1,
              blapyLast  |-> @[i].blapyLast \/ i = Len(@)]]]
  ELSE [jsonDataObj EXCEPT !.blapyIndex = 0]

\* The values of a dataset in _applyProcessDataFunctions: the object that
\* was parsed, an object or a number that a function returns, and the JSON
\* parser itself (jsonFeatures).  The functions the attribute may name:
\* good returns an object, bad returns a number, none is not a function.
FunctionNames == {"good", "bad", "none"}

TypeofObject(v) == v \in {"parsed", "object", "JSON"}

\* one turn of the forEach of _applyProcessDataFunctions
ProcessDataStep(c) ==
  LET aFunctionName == Head(c.names)
      previousJsonDataObj == "JSON"
      returned == CASE aFunctionName = "good" -> "object"
                    [] aFunctionName = "bad"  -> "number"
                    [] OTHER -> c.data
      notFn == IF aFunctionName = "none" THEN 1 ELSE 0
      notObj == IF TypeofObject(returned) THEN 0 ELSE 1
  IN  [fn |-> "_applyProcessDataFunctions", names |-> Tail(c.names),
       data |-> IF TypeofObject(returned) THEN returned ELSE previousJsonDataObj,
       before |-> c.data, last |-> aFunctionName,
       errors |-> c.errors + notFn + notObj, errorsBefore |-> c.errors]

\* A JSON object or array is the list of its properties, in order; a
\* property is a primitive value v (c is empty), or an object or array c
\* (v is "object", what typeof says).  The numbers 1 and 2 are "n1", "n2".
Prim(k, v) == [k |-> k, v |-> v, c |-> <<>>]
Nested(k, c) == [k |-> k, v |-> "object", c |-> c]

\* the array of the objects of a sequence: its properties are the indices
JsonArray(objs) ==
  [i \in DOMAIN objs |-> Nested(<<"0", "1", "2", "3", "4", "5">>[i], objs[i])]

\* what a primitive value is as a string
Str(v) == CASE v = "n1" -> "1" [] v = "n2" -> "2" [] OTHER -> v

StrictEq(v, val) == v = val

\* obj[i] == val, val a string of the filter
LooseEq(v, val) == Str(v) = val

\* getObjects, the for-in loop over the first n properties of obj
RECURSIVE getObjectsUpTo(_, _, _, _)
getObjectsUpTo(obj, n, key, val) ==
  IF n = 0 THEN <<>>
  ELSE LET objects == getObjectsUpTo(obj, n - 1, key, val)
           i == obj[n]
       IN  IF i.v = "object"
           THEN objects \o getObjectsUpTo(i.c, Len(i.c), key, val)
           ELSE IF (i.k = key /\ LooseEq(i.v, val)) \/ (i.k = key /\ val = "")
           THEN Append(objects, obj)
           ELSE IF LooseEq(i.v, val) /\ key = ""
           THEN IF \A j \in DOMAIN objects : objects[j] # obj
                THEN Append(objects, obj) ELSE objects
           ELSE objects

getObjects(obj, key, val) == getObjectsUpTo(obj, Len(obj), key, val)

\* the reduce of _applyInitSearch over the clauses key==value
RECURSIVE Founds(_, _)
Founds(jsonDataObj, clauses) ==
  IF clauses = <<>> THEN <<>>
  ELSE Founds(jsonDataObj, SubSeq(clauses, 1, Len(clauses) - 1))
         \o getObjects(jsonDataObj, clauses[Len(clauses)][1], clauses[Len(clauses)][2])

\* _applyInitSearch: the objects found, each kept where it is met first;
\* found is FALSE when there is no filter and the dataset is returned as is
applyInitSearch(jsonDataObj, clauses) ==
  IF clauses = <<>> THEN [found |-> FALSE, objs |-> <<>>]
  ELSE LET all == Founds(jsonDataObj, clauses)
           first(index) == \A j \in 1..(index - 1) : all[j] # all[index]
           keep == {index \in DOMAIN all : first(index)}
       IN  [found |-> TRUE, objs |-> [n \in 1..Cardinality(keep) |-> all[SetToSeq(keep)[n]]]]

\* the datasets: arrays of flat objects {id, status}, such an array under a
\* property of an object, an object with an object inside
FlatObjects ==
  { << Prim("id", id), Prim("status", st) >> :
      id \in {"n1", "n2"}, st \in {"active", "inactive"} }

Datasets ==
  { JsonArray(a) : a \in SeqsUpTo(FlatObjects, MaxLen) }
  \cup { << Prim("status", "active"), Nested("data", JsonArray(<<o>>)) >> :
           o \in FlatObjects }
  \cup { << Prim("id", "n1"), Nested("child", o), Prim("status", "active") >> :
           o \in FlatObjects }

\* a JSON value: an object or array (v is "object", c its properties), or a
\* primitive v; null is the primitive "null"
JsonValue(v, c) == [v |-> v, c |-> c]
JsonObject(c) == JsonValue("object", c)
Undefined == JsonValue("undefined", <<>>)

\* acc[key]
Property(acc, key) ==
  IF acc.v = "object" /\ \E n \in DOMAIN acc.c : acc.c[n].k = key
  THEN LET n == CHOOSE n \in DOMAIN acc.c : acc.c[n].k = key
       IN  JsonValue(acc.c[n].v, acc.c[n].c)
  ELSE Undefined

\* keys.reduce((acc, key) => acc[key] !== undefined ? acc[key] : acc, ...);
\* reading a property of null throws
RECURSIVE reduceKeys(_, _)
reduceKeys(acc, keys) ==
  IF keys = <<>> THEN [threw |-> FALSE, acc |-> acc]
  ELSE IF acc.v = "null" THEN [threw |-> TRUE, acc |-> acc]
  ELSE LET found == Property(acc, Head(keys))
       IN  reduceKeys(IF found # Undefined THEN found ELSE acc, Tail(keys))

\* _applyInitFromProperty; keys is the attribute split at the dots, empty
\* when the container has no such attribute or an empty one
applyInitFromProperty(jsonDataObj, keys) ==
  IF keys = <<>> THEN jsonDataObj
  ELSE LET reduced == reduceKeys(jsonDataObj, keys)
       IN  IF reduced.threw THEN jsonDataObj ELSE reduced.acc

\* the documents: {data: {users: [o]}}, {name: 'John'}, {data: null,
\* users: [o]}, {data: {name: 'John'}, users: [o]}
Documents ==
  { JsonObject(<< Nested("data", << Nested("users", JsonArray(<<o>>)) >>) >>) :
      o \in FlatObjects }
  \cup { JsonObject(<< Prim("name", "John") >>) }
  \cup { JsonObject(<< Prim("data", "null"), Nested("users", JsonArray(<<o>>)) >>) :
           o \in FlatObjects }
  \cup { JsonObject(<< Nested("data", << Prim("name", "John") >>),
                       Nested("users", JsonArray(<<o>>)) >>) : o \in FlatObjects }

\* this.defaults, the logging options of it
defaults == [debug |-> FALSE, logLevel |-> 1, LogLevelIfsm |-> 1, debugIfsm |-> FALSE]

LoggingOptions == {"debug", "logLevel", "LogLevelIfsm", "debugIfsm"}

\* the options an application passes: has the properties it gives
Options ==
  { o \in [has : SUBSET LoggingOptions, debug : BOOLEAN, logLevel : 1..3,
           LogLevelIfsm : 1..3, debugIfsm : BOOLEAN] :
      \A k \in LoggingOptions \ o.has : o[k] = defaults[k] }

\* { ...this.defaults, ...options }
Spread(options) ==
  [k \in LoggingOptions |-> IF k \in options.has THEN options[k] ELSE defaults[k]]

\* new Logger(options)
Logger(options) == [debug |-> options.debug, logLevel |-> options.logLevel]

\* the constructor of Blapy: optsIfsm is the object opts itself
BlapyLogging(options) ==
  LET opts0 == Spread(options)
      opts1 == [opts0 EXCEPT !["debug"] = opts0["debugIfsm"]]
      opts2 == [opts1 EXCEPT !["logLevel"] = opts1["LogLevelIfsm"]]
  IN  [opts |-> opts2, optsIfsm |-> opts2, logger |-> Logger(opts2)]

\* Logger.log writes the message to the console
Logs(logger, errorLevel) ==
  /\ ~(errorLevel > logger.logLevel)
  /\ ~(errorLevel >= 2 /\ ~logger.debug)

Calls ==
  { [fn |-> "new Blapy", options |-> o, done |-> FALSE, logger |-> Logger(defaults),
     optsIfsm |-> defaults, errorLevel |-> 0, written |-> FALSE] : o \in Options }
  \cup { [fn |-> "_applyInitFromProperty", arg |-> d, keys |-> ks, done |-> FALSE,
     res |-> d] :
      d \in Documents, ks \in SeqsUpTo({"data", "users", "missing"}, 2) }
  \cup { [fn |-> "utoa", arg |-> str, out |-> <<>>] : str \in SeqsUpTo(Chars, MaxLen) }
  \cup { [fn |-> "_addBlapyIndices", arg |-> d, res |-> d, prev |-> d, n |-> 0] :
           d \in { [items |-> a, blapyIndex |-> NoIndex] : a \in SeqsUpTo(Elems, MaxLen) } }
  \cup { [fn |-> "_applyProcessDataFunctions", names |-> ns, data |-> "parsed",
           before |-> "parsed", last |-> NULL, errors |-> 0, errorsBefore |-> 0] :
           ns \in SeqsUpTo(FunctionNames, MaxLen) }
  \cup { [fn |-> "_applyInitSearch", arg |-> d, clauses |-> cl, done |-> FALSE,
           res |-> applyInitSearch(d, <<>>)] :
           d \in Datasets, cl \in SeqsUpTo({"id", "status", ""} \X {"1", "active", ""}, 2) }

InitCalls ==
  /\ call \in Calls
  /\ tplLog = NoTplLog
  /\ renders = NoRenders
  /\ intervalsSet = <<>>
  /\ observers = <<>>
  /\ listeners = [i \in DOMAIN <<BlockA>> |-> 0]
  /\ socket = NoSocket
  /\ instances = OneInstance
  /\ blapyInstance = OneActivated
  /\ fsmState = "PageReady"
  /\ queue = <<>>
  /\ timers = {}
  /\ requests = {}
  /\ tplJobs = <<>>
  /\ templates = {}
  /\ dom = <<BlockA>>
  /\ baseHref = NULL
  /\ entered = [s \in PrepStates |-> 1]
  /\ trig = <<>>
  /\ notes = [pageLoaded |-> 1, pageReady |-> 1]
  /\ cycle = NoCycle
  /\ opts = [animation |-> FALSE]

\* embedHTMLPage encodes the source: utils.utoa(aHtmlSource)
Utils_utoa ==
  /\ call.fn = "utoa"
  /\ call' = [fn |-> "atou", arg |-> call.arg, bin |-> utoa(call.arg)]
  /\ UNCHANGED <<opts, renders, intervalsSet, observers, listeners, socket, instances, blapyInstance, tplLog, baseHref, fsmState, queue, timers, requests, tplJobs, templates,
                 dom, entered, trig, notes, cycle>>

\* the merge decodes the payload: utils.atou(tmpContainer.innerHTML)
Utils_atou ==
  /\ call.fn = "atou"
  /\ call' = [fn |-> "decoded", arg |-> call.arg, res |-> atou(call.bin)]
  /\ UNCHANGED <<opts, renders, intervalsSet, observers, listeners, socket, instances, blapyInstance, tplLog, baseHref, fsmState, queue, timers, requests, tplJobs, templates,
                 dom, entered, trig, notes, cycle>>

\* _applyDataTransformations annotates the dataset; a dataset that is
\* rendered again is annotated again
TemplateManager_addBlapyIndices ==
  /\ call.fn = "_addBlapyIndices"
  /\ call.n < 2
  /\ call' = [call EXCEPT !.res = addBlapyIndices(@), !.prev = call.res, !.n = @ + 1]
  /\ UNCHANGED <<opts, renders, intervalsSet, observers, listeners, socket, instances, blapyInstance, tplLog, baseHref, fsmState, queue, timers, requests, tplJobs, templates,
                 dom, entered, trig, notes, cycle>>

\* _applyProcessDataFunctions: the next function of the list
TemplateManager_applyProcessDataFunctions ==
  /\ call.fn = "_applyProcessDataFunctions"
  /\ call.names # <<>>
  /\ call' = ProcessDataStep(call)
  /\ UNCHANGED <<opts, renders, intervalsSet, observers, listeners, socket, instances, blapyInstance, tplLog, baseHref, fsmState, queue, timers, requests, tplJobs, templates,
                 dom, entered, trig, notes, cycle>>

\* _applyDataTransformations filters the dataset
TemplateManager_applyInitSearch ==
  /\ call.fn = "_applyInitSearch"
  /\ ~call.done
  /\ call' = [call EXCEPT !.res = applyInitSearch(call.arg, call.clauses),
                          !.done = TRUE]
  /\ UNCHANGED <<opts, renders, intervalsSet, observers, listeners, socket, instances, blapyInstance, tplLog, baseHref, fsmState, queue, timers, requests, tplJobs, templates,
                 dom, entered, trig, notes, cycle>>

\* _applyDataTransformations extracts the property
TemplateManager_applyInitFromProperty ==
  /\ call.fn = "_applyInitFromProperty"
  /\ ~call.done
  /\ call' = [call EXCEPT !.res = applyInitFromProperty(call.arg, call.keys),
                          !.done = TRUE]
  /\ UNCHANGED <<opts, renders, intervalsSet, observers, listeners, socket, instances, blapyInstance, tplLog, baseHref, fsmState, queue, timers, requests, tplJobs, templates,
                 dom, entered, trig, notes, cycle>>

\* new Blapy(element, options): the options and the Logger
Blapy_constructor_Logger ==
  /\ call.fn = "new Blapy"
  /\ ~call.done
  /\ call' = [call EXCEPT !.logger = BlapyLogging(call.options).logger,
                          !.optsIfsm = BlapyLogging(call.options).optsIfsm,
                          !.done = TRUE]
  /\ UNCHANGED <<opts, renders, intervalsSet, observers, listeners, socket, instances, blapyInstance, tplLog, baseHref, fsmState, queue, timers, requests, tplJobs, templates,
                 dom, entered, trig, notes, cycle>>

\* this.logger.error / warn / info of the Instance: log(message, errorLevel)
Logger_log ==
  /\ call.fn = "new Blapy"
  /\ call.done
  /\ call.errorLevel = 0
  /\ \E errorLevel \in 1..3 :
       call' = [call EXCEPT !.errorLevel = errorLevel,
                            !.written = Logs(call.logger, errorLevel)]
  /\ UNCHANGED <<opts, renders, intervalsSet, observers, listeners, socket, instances, blapyInstance, tplLog, baseHref, fsmState, queue, timers, requests, tplJobs, templates,
                 dom, entered, trig, notes, cycle>>

NextCalls ==
  \/ TemplateManager_applyInitSearch
  \/ Blapy_constructor_Logger
  \/ Logger_log
  \/ TemplateManager_applyInitFromProperty
  \/ Utils_utoa
  \/ Utils_atou
  \/ TemplateManager_addBlapyIndices
  \/ TemplateManager_applyProcessDataFunctions

SpecCalls == InitCalls /\ [][NextCalls]_vars

----------------------------------------------------------------------------
(* reloadBlock alone: an Instance in PageReady whose page got json blocks  *)
(* with a template file after the initial preparation (pageLoaded writes   *)
(* the html it merges and prepares no template), and reloadBlock triggers. *)

\* json blocks without content, their template in a file not fetched yet
BlockN == [Container("n", "idn", "v1", "json", NULL, <<>>, <<>>)
             EXCEPT !.tplFile = "t.html"]
BlockM == [Container("m", "idm", "v1", "json", NULL, <<>>, <<>>)
             EXCEPT !.tplFile = "t.html"]

ReloadDoms == { <<BlockA, BlockN>>, <<BlockN, BlockM>>, <<BlockK, BlockN>> }

ReloadEvents ==
  { Event("reloadBlock", 0, TriggerData(NULL, NULL, NULL, EmptyBody, b, t)) :
      b \in {NULL, "n", "m"}, t \in {NULL, "t2"} }

InitReload ==
  /\ fsmState = "PageReady"
  /\ queue = <<>>
  /\ timers = {}
  /\ requests = {}
  /\ tplJobs = <<>>
  /\ templates = {}
  /\ dom \in ReloadDoms
  /\ baseHref = NULL
  /\ entered = [s \in PrepStates |-> 1]
  /\ trig = <<>>
  /\ notes = [pageLoaded |-> 1, pageReady |-> 1]
  /\ cycle = NoCycle
  /\ call = NoCall
  /\ opts = [animation |-> FALSE]
  /\ tplLog = NoTplLog
  /\ renders = NoRenders
  /\ intervalsSet = setBlapyUpdateIntervals(<<>>, dom, {})
  /\ observers = setBlapyUpdateOnDisplay(<<>>, dom, {})
  /\ listeners = Listening(dom)
  /\ socket = NoSocket
  /\ instances = OneInstance
  /\ blapyInstance = OneActivated

\* a remote command or user code triggers reloadBlock
ReloadTrigger ==
  /\ Idle
  /\ ExternalCount < MaxTriggers
  /\ \E e \in ReloadEvents :
       /\ queue' = << Event(e.name, Len(trig) + 1, e.data) >>
       /\ trig' = trig \o NewTrig(<<e>>, TRUE)
  /\ UNCHANGED <<opts, renders, intervalsSet, observers, listeners, socket, instances, blapyInstance, tplLog, call, baseHref, fsmState, timers, requests, tplJobs,
                 templates, dom, entered, notes, cycle>>

NextReload ==
  \/ ReloadTrigger
  \/ PageReady_reloadBlock
  \/ setBlapyJsonTemplates
  \/ TemplateFetched
  \/ TemplateFetchFailed
  \/ EventNotDefined

SpecReload == InitReload /\ [][NextReload]_vars

----------------------------------------------------------------------------
(* The preparation alone: an Instance activated on a page with several     *)
(* json blocks whose templates are in files, and reloadBlock triggers      *)
(* raised while it prepares the page and after.                            *)

BlockU == [Container("u", "idu", "v1", "json", NULL, <<>>, <<>>)
             EXCEPT !.tplFile = "u.html"]

PrepareDoms ==
  { <<BlockN, BlockU>>, <<BlockU, BlockN>>, <<BlockN, BlockM>>,
    <<BlockK, BlockN, BlockU>>, <<BlockU, BlockA, BlockN>> }

InitPrepare ==
  /\ fsmState = "DefaultState"
  /\ queue = << Event("start", 0, NULL) >>
  /\ timers = {}
  /\ requests = {}
  /\ tplJobs = <<>>
  /\ templates = {}
  /\ dom \in PrepareDoms
  /\ baseHref = NULL
  /\ entered = [s \in PrepStates |-> 0]
  /\ trig = <<>>
  /\ notes = [pageLoaded |-> 0, pageReady |-> 0]
  /\ cycle = NoCycle
  /\ call = NoCall
  /\ opts = [animation |-> FALSE]
  /\ tplLog = NoTplLog
  /\ renders = NoRenders
  /\ intervalsSet = <<>>
  /\ observers = <<>>
  /\ listeners = [i \in DOMAIN dom |-> 0]
  /\ socket = NoSocket
  /\ instances = OneInstance
  /\ blapyInstance = OneActivated

NextPrepare ==
  \/ Start
  \/ PageLoaded_enterState
  \/ PreparePage_enterState
  \/ PreparePage_setBlapyUrl
  \/ PreparePage_setBlapyJsonTemplates_enterState
  \/ PreparePage_setBlapyUpdateOnDisplay_blapyJsonTemplatesIsSet
  \/ PreparePage_setBlapyUpdateOnDisplay_loadUrl
  \/ TimerFires
  \/ ReloadTrigger
  \/ PageReady_reloadBlock
  \/ setBlapyJsonTemplates
  \/ TemplateFetched
  \/ TemplateFetchFailed
  \/ EventNotDefined

SpecPrepare == InitPrepare /\ [][NextPrepare]_vars

----------------------------------------------------------------------------
(* Activation alone: a page with two elements, none activated yet, and an  *)
(* application that calls element.Blapy(options), createBlapy(selector,    *)
(* options) or new Blapy(element, options) on them.                        *)

\* how many Blapy objects one behaviour builds
MaxInstances == 3

InitActivate ==
  /\ instances = <<>>
  /\ blapyInstance = [e \in Elements |-> 0]
  /\ call = NoCall
  /\ fsmState = "DefaultState"
  /\ queue = <<>>
  /\ timers = {}
  /\ requests = {}
  /\ tplJobs = <<>>
  /\ templates = {}
  /\ dom = <<>>
  /\ baseHref = NULL
  /\ entered = [s \in PrepStates |-> 0]
  /\ trig = <<>>
  /\ notes = [pageLoaded |-> 0, pageReady |-> 0]
  /\ cycle = NoCycle
  /\ opts = [animation |-> FALSE]
  /\ tplLog = NoTplLog
  /\ renders = NoRenders
  /\ intervalsSet = <<>>
  /\ observers = <<>>
  /\ listeners = [i \in DOMAIN dom |-> 0]
  /\ socket = NoSocket

NotAttached(el) == FALSE

\* if (this._blapyInstance)
Attached(el) == blapyInstance[el] # 0

\* element.Blapy(options), also through createBlapy(selector, options)
HTMLElement_Blapy ==
  /\ \E el \in Elements, options \in OptionSets, ok \in BOOLEAN :
       IF Attached(el)
       THEN /\ call' = [fn |-> "Blapy", el |-> el, options |-> options,
                        ret |-> blapyInstance[el]]
            /\ UNCHANGED <<instances, blapyInstance>>
       ELSE /\ Len(instances) < MaxInstances
            /\ instances' = Append(instances, Instance(el, options, "Blapy", ok))
            /\ blapyInstance' = [blapyInstance EXCEPT ![el] = Len(instances) + 1]
            /\ call' = [fn |-> "Blapy", el |-> el, options |-> options,
                        ret |-> Len(instances) + 1]
  /\ UNCHANGED <<opts, renders, intervalsSet, observers, listeners, socket, tplLog, baseHref, fsmState, queue, timers, requests, tplJobs,
                 templates, dom, entered, trig, notes, cycle>>

\* new Blapy(element, options) and initApplication() called by the page
Blapy_constructor ==
  /\ Len(instances) < MaxInstances
  /\ \E el \in Elements, options \in OptionSets, ok \in BOOLEAN :
       /\ instances' = Append(instances, Instance(el, options, "new", ok))
       /\ call' = [fn |-> "new", el |-> el, options |-> options,
                   ret |-> Len(instances) + 1]
  /\ UNCHANGED <<opts, renders, intervalsSet, observers, listeners, socket, tplLog, blapyInstance, baseHref, fsmState, queue, timers,
                 requests, tplJobs, templates, dom, entered, trig, notes, cycle>>

NextActivate ==
  \/ HTMLElement_Blapy
  \/ Blapy_constructor

SpecActivate == InitActivate /\ [][NextActivate]_vars

----------------------------------------------------------------------------
(* The remote channel alone: an Instance in PageReady with a BlapySocket,  *)
(* and a server that sends it messages.                                    *)

\* how many messages the server sends in one behaviour
MaxMessages == 3

\* options.allowedCommands: the default list, and lists an application sets
AllowedLists ==
  { Commands, {"updateBlock", "reloadBlock"}, {"trigger"}, {"loadUrl", "ping"}, {} }

\* message.data for a command: what the command's FSM event is given
CommandData(command) ==
  IF command = "updateBlock"
  THEN TriggerData(NULL, NULL, NULL, Body(<<FragA2>>, <<>>), NULL, NULL)
  ELSE IF command = "reloadBlock"
  THEN TriggerData(NULL, NULL, NULL, EmptyBody, "a", NULL)
  ELSE IF command = "postData"
  THEN TriggerData("u", MyId, "POST", EmptyBody, NULL, NULL)
  ELSE TriggerData("u", MyId, NULL, EmptyBody, NULL, NULL)

\* the messages a server may send: JSON text with a type and a command
Messages ==
  { [type |-> t, command |-> c] :
      t \in {"blapy_command", "broadcast", "ping"},
      c \in Commands \cup {"ping"} }

InitSocket ==
  /\ socket \in { Connected(Socket(l)) : l \in AllowedLists }
  /\ fsmState = "PageReady"
  /\ queue = <<>>
  /\ timers = {}
  /\ requests = {}
  /\ tplJobs = <<>>
  /\ templates = {}
  /\ dom = setBlapyURL(<<BlockA, BlockB>>, {}, NULL)
  /\ baseHref = NULL
  /\ entered = [s \in PrepStates |-> 1]
  /\ trig = <<>>
  /\ notes = [pageLoaded |-> 1, pageReady |-> 1]
  /\ cycle = NoCycle
  /\ call = NoCall
  /\ opts = [animation |-> FALSE]
  /\ tplLog = NoTplLog
  /\ renders = NoRenders
  /\ intervalsSet = setBlapyUpdateIntervals(<<>>, dom, {})
  /\ observers = setBlapyUpdateOnDisplay(<<>>, dom, {})
  /\ listeners = Listening(dom)
  /\ instances = OneInstance
  /\ blapyInstance = OneActivated

AllowAll(command) == TRUE

\* this.options.allowedCommands.includes(command)
Allowed(command) == command \in socket.allowedCommands

\* ws.onmessage: _handleMessage, and _handleBlapyCommand or _handleBroadcast
BlapySocket_handleMessage ==
  /\ Idle
  /\ socket.received < MaxMessages
  /\ \E message \in Messages :
       LET got == [socket EXCEPT !.received = @ + 1, !.last = message]
       IN
       IF message.type = "blapy_command"
       THEN IF ~Allowed(message.command)
            THEN /\ socket' = [got EXCEPT !.warnings = @ + 1]
                 /\ UNCHANGED <<queue, trig>>
            ELSE IF message.command \in FetchEvents
            THEN /\ socket' = got
                 /\ queue' = << Event(message.command, Len(trig) + 1,
                                      CommandData(message.command)) >>
                 /\ trig' = trig \o NewTrig(<< Event(message.command, 0, NULL) >>, TRUE)
            ELSE IF message.command = "trigger"
            THEN /\ socket' = [got EXCEPT !.dispatched = @ + 1]
                 /\ UNCHANGED <<queue, trig>>
            ELSE /\ socket' = [got EXCEPT !.warnings = @ + 1]
                 /\ UNCHANGED <<queue, trig>>
       ELSE IF message.type = "broadcast"
       THEN /\ socket' = [got EXCEPT !.dispatched = @ + 1]
            /\ UNCHANGED <<queue, trig>>
       ELSE /\ socket' = got
            /\ UNCHANGED <<queue, trig>>
  /\ UNCHANGED <<opts, renders, intervalsSet, observers, listeners, instances, blapyInstance, tplLog, call, baseHref, fsmState,
                 timers, requests, tplJobs, templates, dom, entered, notes, cycle>>

NextSocket ==
  \/ BlapySocket_handleMessage
  \/ PageReady_loadUrl
  \/ PageReady_postData
  \/ PageReady_updateBlock
  \/ PageReady_reloadBlock
  \/ ProcessPageChange_pageLoaded
  \/ ProcessPageChange_errorOnLoadingPage
  \/ ProcessPageChange_loadUrl
  \/ TimerFires
  \/ RequestResolved
  \/ RequestRejected
  \/ EventNotDefined

SpecSocket == InitSocket /\ [][NextSocket]_vars

----------------------------------------------------------------------------
(* The main request alone: an Instance in PageReady, and links, forms and  *)
(* user code that trigger loadUrl and postData with their parameters.      *)

\* who triggers: a link of the page (no aObjectId, no blapyaction) or user
\* code (both given)
Callers == { [aObjectId |-> NULL, blapyaction |-> NULL],
             [aObjectId |-> "app2", blapyaction |-> "search"] }

RequestEvents ==
  { Event(n, 0, [TriggerData("u", c.aObjectId, m, EmptyBody, NULL, NULL)
                   EXCEPT !.blapyaction = c.blapyaction, !.extra = x]) :
      n \in {"loadUrl", "postData"}, c \in Callers,
      m \in {NULL, "get", "PUT"}, x \in {"absent", "v", "null"} }

InitRequest ==
  /\ fsmState = "PageReady"
  /\ queue = <<>>
  /\ timers = {}
  /\ requests = {}
  /\ tplJobs = <<>>
  /\ templates = {}
  /\ dom = setBlapyURL(<<BlockA, BlockB>>, {}, NULL)
  /\ baseHref = NULL
  /\ entered = [s \in PrepStates |-> 1]
  /\ trig = <<>>
  /\ notes = [pageLoaded |-> 1, pageReady |-> 1]
  /\ cycle = NoCycle
  /\ call = NoCall
  /\ opts = [animation |-> FALSE]
  /\ tplLog = NoTplLog
  /\ renders = NoRenders
  /\ intervalsSet = setBlapyUpdateIntervals(<<>>, dom, {})
  /\ observers = setBlapyUpdateOnDisplay(<<>>, dom, {})
  /\ listeners = Listening(dom)
  /\ socket = NoSocket
  /\ instances = OneInstance
  /\ blapyInstance = OneActivated

\* a link, a form or user code triggers loadUrl or postData
RequestTrigger ==
  /\ Idle
  /\ ExternalCount < MaxTriggers
  /\ \E e \in RequestEvents :
       /\ queue' = << Event(e.name, Len(trig) + 1, e.data) >>
       /\ trig' = trig \o NewTrig(<<e>>, TRUE)
  /\ UNCHANGED <<opts, renders, intervalsSet, observers, listeners, socket, instances, blapyInstance, tplLog, call, baseHref,
                 fsmState, timers, requests, tplJobs, templates, dom, entered,
                 notes, cycle>>

NextRequest ==
  \/ RequestTrigger
  \/ PageReady_loadUrl
  \/ PageReady_postData
  \/ ProcessPageChange_loadUrl
  \/ TimerFires
  \/ RequestResolved
  \/ RequestRejected
  \/ ProcessPageChange_pageLoaded
  \/ ProcessPageChange_errorOnLoadingPage

SpecRequest == InitRequest /\ [][NextRequest]_vars

----------------------------------------------------------------------------
(* reloadBlock on one named block of a page that is ready: the block is    *)
(* prepared or not (it came with the content of a page merged since), next *)
(* to a block with a link or to another json block.                        *)

\* a json block as setBlapyContainerJsonTemplate leaves it
Prepared(c) == [c EXCEPT !.rule = "local", !.tpl = "xmp", !.inner = <<>>]

BlockKInit == [BlockK EXCEPT !.init = "k.json"]

ReinitDoms ==
  { <<LiveB, Prepared(BlockJ)>>, <<Prepared(BlockKInit), Prepared(BlockJ)>>,
    <<LiveB, BlockJ>> }

ReinitEvents ==
  { Event("reloadBlock", 0, TriggerData(NULL, NULL, NULL, EmptyBody, "j", t)) :
      t \in {NULL, "t2"} }

InitReinit ==
  /\ fsmState = "PageReady"
  /\ queue = <<>>
  /\ timers = {}
  /\ requests = {}
  /\ tplJobs = <<>>
  /\ templates = {}
  /\ dom \in ReinitDoms
  /\ baseHref \in BaseHrefs
  /\ entered = [s \in PrepStates |-> 1]
  /\ trig = <<>>
  /\ notes = [pageLoaded |-> 1, pageReady |-> 1]
  /\ cycle = NoCycle
  /\ call = NoCall
  /\ opts = [animation |-> FALSE]
  /\ tplLog = NoTplLog
  /\ renders = NoRenders
  /\ intervalsSet = setBlapyUpdateIntervals(<<>>, dom, {})
  /\ observers = setBlapyUpdateOnDisplay(<<>>, dom, {})
  /\ listeners = Listening(dom)
  /\ socket = NoSocket
  /\ instances = OneInstance
  /\ blapyInstance = OneActivated

ReinitTrigger ==
  /\ Idle
  /\ ExternalCount < MaxTriggers
  /\ \E e \in ReinitEvents :
       /\ queue' = << Event(e.name, Len(trig) + 1, e.data) >>
       /\ trig' = trig \o NewTrig(<<e>>, TRUE)
  /\ UNCHANGED <<opts, renders, intervalsSet, observers, listeners, socket, instances, blapyInstance, tplLog, call, baseHref, fsmState, timers, requests, tplJobs,
                 templates, dom, entered, notes, cycle>>

NextReinit ==
  \/ ReinitTrigger
  \/ PageReady_reloadBlock
  \/ PageReady_postData
  \/ ProcessPageChange_loadUrl
  \/ TimerFires
  \/ RequestResolvedJson
  \/ RequestRejected
  \/ ProcessPageChange_pageLoaded
  \/ ProcessPageChange_errorOnLoadingPage
  \/ setBlapyJsonTemplates
  \/ TemplateFetched
  \/ TemplateFetchFailed
  \/ TemplateManager_processJsonUpdate
  \/ TemplateManager_injectFinalHtml_setTimeout
  \/ EventNotDefined

SpecReinit == InitReinit /\ [][NextReinit]_vars

----------------------------------------------------------------------------
(* The JSON pipeline alone: an Instance in PageReady with one json or      *)
(* json-append container, with or without a template, and update commands  *)
(* that bring it a node whose content or payload is JSON text, or is not.  *)

\* the template child of a container written in the page
WithTpl(c) == [c EXCEPT !.tpl = "xmp"]

\* a json block with no template and no template file, once prepared
BlockV == Container("j", "idj", "v1", "json", "local", <<>>, <<>>)

BlockL == Container("l", "idl", "v1", "json-append", NULL, <<>>, <<>>)

JsonLives ==
  { [Prepared(BlockJ) EXCEPT !.inner = <<"n0">>], BlockV,
    WithTpl(BlockL), BlockL,
    [WithTpl(BlockL) EXCEPT !.jsonData = <<Item("n0", "p")>>, !.inner = <<"n0">>] }

\* what a node brings: JSON text, JSON text in markup, text that is not
\* JSON, an object with blapy-container-name
JsonContents(name) ==
  { NoJson, Json(<<Item("n1", "p")>>), InHtml(Json(<<Item("n1", "p")>>)),
    Wrapped(name, <<Item("n1", "p")>>), Wrapped("z", <<Item("n1", "p")>>) }

\* the payloads of an xmp.blapybin: JSON text, text that is not JSON, text
\* that atou does not decode
JsonPayloads == { utoa(<<"[", "n1", "]">>), utoa(<<"y">>), <<"%", "z">> }

JsonFrags ==
  UNION { { [Container(c.name, NULL, "v2", c.update, NULL, <<>>, <<"text">>)
               EXCEPT !.json = j] : j \in JsonContents(c.name) }
          \cup
          { [Container(c.name, NULL, "v2", c.update, NULL, <<>>, <<>>)
               EXCEPT !.bin = b] : b \in JsonPayloads }
          : c \in {BlockV, BlockL} }

JsonEvents ==
  { Event("updateBlock", 0,
          TriggerData(NULL, NULL, NULL, Body(<<f>>, <<>>), NULL, NULL)) :
      f \in JsonFrags }

InitJson ==
  /\ fsmState = "PageReady"
  /\ queue = <<>>
  /\ timers = {}
  /\ requests = {}
  /\ tplJobs = <<>>
  /\ templates = {}
  /\ \E c \in JsonLives : dom = <<c, LiveB>>
  /\ baseHref = NULL
  /\ entered = [s \in PrepStates |-> 1]
  /\ trig = <<>>
  /\ notes = [pageLoaded |-> 1, pageReady |-> 1]
  /\ cycle = NoCycle
  /\ call = NoCall
  /\ tplLog = NoTplLog
  /\ renders = NoRenders
  /\ intervalsSet = setBlapyUpdateIntervals(<<>>, dom, {})
  /\ observers = setBlapyUpdateOnDisplay(<<>>, dom, {})
  /\ listeners = Listening(dom)
  /\ socket = NoSocket
  /\ instances = OneInstance
  /\ blapyInstance = OneActivated
  /\ opts = [animation |-> FALSE]

\* a remote command or user code triggers updateBlock with a node
JsonTrigger ==
  /\ Idle
  /\ ExternalCount < MaxTriggers
  /\ \E e \in JsonEvents :
       /\ queue' = << Event(e.name, Len(trig) + 1, e.data) >>
       /\ trig' = trig \o NewTrig(<<e>>, TRUE)
  /\ UNCHANGED <<opts, renders, intervalsSet, observers, listeners, socket, instances, blapyInstance, tplLog, call, baseHref, fsmState, timers, requests, tplJobs,
                 templates, dom, entered, notes, cycle>>

NextJson ==
  \/ JsonTrigger
  \/ PageReady_updateBlock
  \/ ProcessPageChange_pageLoaded
  \/ TemplateManager_processJsonUpdate
  \/ TemplateManager_injectFinalHtml_setTimeout
  \/ EventNotDefined

SpecJson == InitJson /\ [][NextJson]_vars

----------------------------------------------------------------------------
(* Nested json blocks: an Instance in PageReady with a json container      *)
(* whose template holds a json block, its own template inline or in a      *)
(* file, and update commands that bring the container arrays to render.    *)

\* the json block inside the template: with its template in a file, or
\* with markup of its own
SubBlocks ==
  { [Container("s", NULL, "v1", "json", NULL, <<>>, <<>>)
       EXCEPT !.tplFile = "t.html"],
    Container("s", NULL, "v1", "json", NULL, <<>>, <<"t">>) }

NestingLives ==
  { [WithTpl(BlockV) EXCEPT !.tplSub = <<b>>] : b \in SubBlocks }

NestingEvents ==
  { Event("updateBlock", 0,
          TriggerData(NULL, NULL, NULL,
                      Body(<< [Container("j", NULL, "v2", "json", NULL, <<>>, <<"text">>)
                                 EXCEPT !.json = j] >>, <<>>),
                      NULL, NULL)) :
      j \in { NoJson, Json(<<Item("n1", "p")>>),
              Json(<<Item("n1", "p"), Item("s1", "p")>>) } }

InitNesting ==
  /\ fsmState = "PageReady"
  /\ queue = <<>>
  /\ timers = {}
  /\ requests = {}
  /\ tplJobs = <<>>
  /\ templates = {}
  /\ \E c \in NestingLives : dom = <<c, LiveB>>
  /\ baseHref = NULL
  /\ entered = [s \in PrepStates |-> 1]
  /\ trig = <<>>
  /\ notes = [pageLoaded |-> 1, pageReady |-> 1]
  /\ cycle = NoCycle
  /\ call = NoCall
  /\ tplLog = NoTplLog
  /\ renders = NoRenders
  /\ intervalsSet = setBlapyUpdateIntervals(<<>>, dom, {})
  /\ observers = setBlapyUpdateOnDisplay(<<>>, dom, {})
  /\ listeners = Listening(dom)
  /\ socket = NoSocket
  /\ instances = OneInstance
  /\ blapyInstance = OneActivated
  /\ opts = [animation |-> FALSE]

\* a remote command or user code triggers updateBlock with an array
NestingTrigger ==
  /\ Idle
  /\ ExternalCount < MaxTriggers
  /\ \E e \in NestingEvents :
       /\ queue' = << Event(e.name, Len(trig) + 1, e.data) >>
       /\ trig' = trig \o NewTrig(<<e>>, TRUE)
  /\ UNCHANGED <<opts, renders, intervalsSet, observers, listeners, socket, instances, blapyInstance, tplLog, call, baseHref, fsmState, timers, requests, tplJobs,
                 templates, dom, entered, notes, cycle>>

NextNesting ==
  \/ NestingTrigger
  \/ PageReady_updateBlock
  \/ ProcessPageChange_pageLoaded
  \/ TemplateManager_processJsonUpdate
  \/ TemplateManager_injectFinalHtml_setTimeout
  \/ setBlapyJsonTemplates
  \/ TemplateFetched
  \/ TemplateFetchFailed
  \/ EventNotDefined

SpecNesting == InitNesting /\ [][NextNesting]_vars

----------------------------------------------------------------------------
(* The refresh timers: a page whose containers poll, from its activation   *)
(* on, the timers firing and update commands that replace, keep or remove  *)
(* the containers that poll.                                               *)

\* the texts of data-blapy-updateblock-time: a number, zero, no number
Times == {"1000", "0", "soon"}

PollB == [BlockB EXCEPT !.time = "1000", !.blapyHref = "u"]

IntervalDoms ==
  { << [BlockA EXCEPT !.time = t, !.blapyHref = h, !.rule = r], PollB >> :
      t \in Times \cup {NULL}, h \in {NULL, "u"}, r \in {NULL, "local"} }

\* the nodes an update command brings for a and for b
IntervalFrags ==
  { [Container("a", NULL, "v2", u, NULL, <<>>, <<"y">>)
       EXCEPT !.time = t, !.blapyHref = "u"] :
      u \in {"update", "remove"}, t \in {NULL, "1000"} }
  \cup { FragB }

IntervalEvents ==
  { Event("updateBlock", 0,
          TriggerData(NULL, NULL, NULL, Body(page, <<>>), NULL, NULL)) :
      page \in { <<f>> : f \in IntervalFrags }
                \cup { <<f, FragB>> : f \in IntervalFrags \ {FragB} } }

InitIntervals ==
  /\ fsmState = "DefaultState"
  /\ queue = << Event("start", 0, NULL) >>
  /\ timers = {}
  /\ requests = {}
  /\ tplJobs = <<>>
  /\ templates = {}
  /\ dom \in IntervalDoms
  /\ baseHref = NULL
  /\ entered = [s \in PrepStates |-> 0]
  /\ trig = <<>>
  /\ notes = [pageLoaded |-> 0, pageReady |-> 0]
  /\ cycle = NoCycle
  /\ call = NoCall
  /\ tplLog = NoTplLog
  /\ renders = NoRenders
  /\ intervalsSet = <<>>
  /\ observers = <<>>
  /\ listeners = [i \in DOMAIN dom |-> 0]
  /\ socket = NoSocket
  /\ instances = OneInstance
  /\ blapyInstance = OneActivated
  /\ opts = [animation |-> FALSE]

\* the callback of a setInterval timer runs: it triggers loadUrl
BlapyBlock_setInterval_callback ==
  /\ Idle
  /\ ExternalCount < MaxTriggers
  /\ \E k \in DOMAIN intervalsSet :
     \E e \in {Event("loadUrl", Len(trig) + 1,
                     TriggerData(intervalsSet[k].href, MyId, NULL, EmptyBody,
                                 NULL, NULL))} :
       /\ queue' = <<e>>
       /\ trig' = trig \o NewTrig(<<e>>, TRUE)
  /\ UNCHANGED <<opts, renders, intervalsSet, observers, listeners, socket, instances, blapyInstance, tplLog, call, baseHref, fsmState, timers, requests, tplJobs,
                 templates, dom, entered, notes, cycle>>

\* a remote command or user code triggers updateBlock
IntervalTrigger ==
  /\ Idle
  /\ fsmState = "PageReady"
  /\ ExternalCount < MaxTriggers
  /\ \E e \in IntervalEvents :
       /\ queue' = << Event(e.name, Len(trig) + 1, e.data) >>
       /\ trig' = trig \o NewTrig(<<e>>, TRUE)
  /\ UNCHANGED <<opts, renders, intervalsSet, observers, listeners, socket, instances, blapyInstance, tplLog, call, baseHref, fsmState, timers, requests, tplJobs,
                 templates, dom, entered, notes, cycle>>

NextIntervals ==
  \/ Start
  \/ PageLoaded_enterState
  \/ PreparePage_enterState
  \/ PreparePage_setBlapyUrl
  \/ PreparePage_setBlapyJsonTemplates_enterState
  \/ PreparePage_setBlapyUpdateOnDisplay_blapyJsonTemplatesIsSet
  \/ BlapyBlock_setInterval_callback
  \/ IntervalTrigger
  \/ PageReady_loadUrl
  \/ PageReady_postData
  \/ PageReady_updateBlock
  \/ ProcessPageChange_loadUrl
  \/ TimerFires
  \/ RequestResolved
  \/ RequestRejected
  \/ ProcessPageChange_pageLoaded
  \/ ProcessPageChange_errorOnLoadingPage

SpecIntervals == InitIntervals /\ [][NextIntervals]_vars

----------------------------------------------------------------------------
(* The connection of a BlapySocket alone: an application that calls        *)
(* connect() and disconnect(), the WebSocket objects opening, failing and  *)
(* closing, the reconnection timer.                                        *)

\* how many WebSocket objects one behaviour creates
MaxSockets == 3

\* options.maxReconnectAttempts
maxReconnectAttempts == 2

\* the close codes: a clean close, an abnormal one
CloseCodes == {1000, 1006}

InitConnect ==
  /\ socket = Socket(Commands)
  /\ fsmState = "PageReady"
  /\ queue = <<>>
  /\ timers = {}
  /\ requests = {}
  /\ tplJobs = <<>>
  /\ templates = {}
  /\ dom = setBlapyURL(<<BlockA, BlockB>>, {}, NULL)
  /\ baseHref = NULL
  /\ entered = [s \in PrepStates |-> 1]
  /\ trig = <<>>
  /\ notes = [pageLoaded |-> 1, pageReady |-> 1]
  /\ cycle = NoCycle
  /\ call = NoCall
  /\ opts = [animation |-> FALSE]
  /\ tplLog = NoTplLog
  /\ renders = NoRenders
  /\ intervalsSet = setBlapyUpdateIntervals(<<>>, dom, {})
  /\ observers = setBlapyUpdateOnDisplay(<<>>, dom, {})
  /\ listeners = Listening(dom)
  /\ instances = OneInstance
  /\ blapyInstance = OneActivated

\* connect(): nothing when isConnected, else a new WebSocket
connect(s) ==
  IF s.isConnected THEN s
  ELSE [s EXCEPT !.sockets = Append(@, "connecting"), !.ws = Len(s.sockets) + 1]

\* _clearReconnectTimer
clearReconnectTimer(s) == [s EXCEPT !.reconnectTimer = FALSE]

\* _scheduleReconnect
scheduleReconnect(s) ==
  IF s.reconnectTimer THEN s
  ELSE [s EXCEPT !.reconnectAttempts = @ + 1, !.reconnectTimer = TRUE]

\* disconnect(): ws.close() only on the connection that is open
disconnect(s) ==
  LET cleared == clearReconnectTimer(s)
      closed  == IF cleared.ws # 0 /\ cleared.isConnected
                 THEN [cleared EXCEPT !.sockets[cleared.ws] =
                         IF @ = "open" THEN "closing" ELSE @]
                 ELSE cleared
  IN  [closed EXCEPT !.isConnected = FALSE, !.ws = 0]

Others ==
  UNCHANGED <<opts, renders, intervalsSet, observers, listeners, instances, blapyInstance, tplLog, call, baseHref, fsmState, queue, trig,
              timers, requests, tplJobs, templates, dom, entered, notes, cycle>>

\* the application calls connect()
BlapySocket_connect ==
  /\ socket.isConnected \/ Len(socket.sockets) < MaxSockets
  /\ socket' = [connect(socket) EXCEPT !.disconnected = FALSE]
  /\ Others

\* the application calls disconnect()
BlapySocket_disconnect ==
  /\ socket' = [disconnect(socket) EXCEPT !.disconnected = TRUE]
  /\ Others

\* ws.onopen of a WebSocket that was connecting
WebSocket_onopen ==
  /\ \E k \in DOMAIN socket.sockets :
       /\ socket.sockets[k] = "connecting"
       /\ socket' = [clearReconnectTimer(socket)
                       EXCEPT !.sockets[k] = "open", !.isConnected = TRUE,
                              !.reconnectAttempts = 0]
  /\ Others

\* ws.onclose: the connection failed (1006), the server or the network
\* closed it, or the close that disconnect() asked for is done
WebSocket_onclose ==
  /\ \E k \in DOMAIN socket.sockets : \E code \in CloseCodes :
       /\ socket.sockets[k] \in {"connecting", "open", "closing"}
       /\ socket.sockets[k] = "connecting" => code = 1006
       /\ LET shut == [socket EXCEPT !.sockets[k] = "closed",
                                     !.isConnected = FALSE]
          IN  socket' = IF code # 1000
                           /\ shut.reconnectAttempts < maxReconnectAttempts
                        THEN scheduleReconnect(shut) ELSE shut
  /\ Others

\* the timer of _scheduleReconnect fires: connect()
BlapySocket_scheduleReconnect_setTimeout ==
  /\ socket.reconnectTimer
  /\ socket.isConnected \/ Len(socket.sockets) < MaxSockets
  /\ socket' = connect(clearReconnectTimer(socket))
  /\ Others

NextConnect ==
  \/ BlapySocket_connect
  \/ BlapySocket_disconnect
  \/ WebSocket_onopen
  \/ WebSocket_onclose
  \/ BlapySocket_scheduleReconnect_setTimeout

SpecConnect == InitConnect /\ [][NextConnect]_vars

----------------------------------------------------------------------------
(* The custom links: a page whose containers hold an element marked        *)
(* data-blapy-link that is neither an anchor nor a form, from its          *)
(* activation on; update commands that replace one container or the other, *)
(* and a user who clicks on the links.                                     *)

ClickDoms ==
  { << [BlockA EXCEPT !.href = h, !.rule = r], BlockB >> :
      h \in {NoHref, 0}, r \in {NULL, "local"} }

\* the nodes an update command brings: with a link in them or without
ClickFrags ==
  { [FragA2 EXCEPT !.href = h] : h \in {NoHref, 0} }
  \cup { [FragB EXCEPT !.href = h] : h \in {NoHref, 0} }

ClickEvents ==
  { Event("updateBlock", 0,
          TriggerData(NULL, NULL, NULL, Body(<<f>>, <<>>), NULL, NULL)) :
      f \in ClickFrags }

InitClick ==
  /\ fsmState = "DefaultState"
  /\ queue = << Event("start", 0, NULL) >>
  /\ timers = {}
  /\ requests = {}
  /\ tplJobs = <<>>
  /\ templates = {}
  /\ dom \in ClickDoms
  /\ baseHref = NULL
  /\ entered = [s \in PrepStates |-> 0]
  /\ trig = <<>>
  /\ notes = [pageLoaded |-> 0, pageReady |-> 0]
  /\ cycle = NoCycle
  /\ call = NoCall
  /\ tplLog = NoTplLog
  /\ renders = NoRenders
  /\ intervalsSet = <<>>
  /\ observers = <<>>
  /\ listeners = [i \in DOMAIN dom |-> 0]
  /\ socket = NoSocket
  /\ instances = OneInstance
  /\ blapyInstance = OneActivated
  /\ opts = [animation |-> FALSE]

\* the user clicks once on the custom link of a container: each of the
\* listeners that _updateHref added to the element triggers loadUrl
HTMLElement_click ==
  /\ Idle
  /\ ExternalCount < MaxTriggers
  /\ \E i \in DOMAIN dom :
     \E ev \in {[k \in 1..listeners[i] |->
                   Event("loadUrl", Len(trig) + k,
                         TriggerData("u", MyId, NULL, EmptyBody, NULL, NULL))]} :
       /\ dom[i].href # NoHref
       /\ listeners[i] > 0
       /\ queue' = ev
       /\ trig' = trig \o NewTrig(ev, TRUE)
       /\ call' = [fn |-> "click", i |-> i, raised |-> Len(ev)]
  /\ UNCHANGED <<opts, renders, intervalsSet, observers, listeners, socket, instances, blapyInstance, tplLog, baseHref, fsmState, timers, requests, tplJobs,
                 templates, dom, entered, notes, cycle>>

\* a remote command or user code triggers updateBlock
ClickTrigger ==
  /\ Idle
  /\ fsmState = "PageReady"
  /\ ExternalCount < MaxTriggers
  /\ \E e \in ClickEvents :
       /\ queue' = << Event(e.name, Len(trig) + 1, e.data) >>
       /\ trig' = trig \o NewTrig(<<e>>, TRUE)
  /\ UNCHANGED <<opts, renders, intervalsSet, observers, listeners, socket, instances, blapyInstance, tplLog, call, baseHref, fsmState, timers, requests, tplJobs,
                 templates, dom, entered, notes, cycle>>

NextClick ==
  \/ Start
  \/ PageLoaded_enterState
  \/ PreparePage_enterState
  \/ PreparePage_setBlapyUrl
  \/ PreparePage_setBlapyJsonTemplates_enterState
  \/ PreparePage_setBlapyUpdateOnDisplay_blapyJsonTemplatesIsSet
  \/ HTMLElement_click
  \/ ClickTrigger
  \/ PageReady_loadUrl
  \/ PageReady_postData
  \/ PageReady_updateBlock
  \/ ProcessPageChange_loadUrl
  \/ TimerFires
  \/ RequestResolved
  \/ RequestRejected
  \/ ProcessPageChange_pageLoaded
  \/ ProcessPageChange_errorOnLoadingPage

SpecClick == InitClick /\ [][NextClick]_vars

----------------------------------------------------------------------------
(* The visibility observers: a page with a json block and a plain          *)
(* container flagged data-blapy-updateblock-ondisplay, from its activation *)
(* on; the elements enter the viewport at any time.                        *)

\* the json block: a template in its content, an init URL; flagged with a
\* value or with the bare attribute; with or without a href of its own
DisplayJs ==
  { [Container("j", "idj", "v1", "json", NULL, <<>>, <<"t">>)
       EXCEPT !.init = "init.json", !.ondisplay = o, !.blapyHref = h] :
      o \in {"true", ""}, h \in {NULL, "u"} }

DisplayAs ==
  { [BlockA EXCEPT !.ondisplay = "true", !.blapyHref = "u", !.rule = r] :
      r \in {NULL, "local"} }

InitDisplay ==
  /\ fsmState = "DefaultState"
  /\ queue = << Event("start", 0, NULL) >>
  /\ timers = {}
  /\ requests = {}
  /\ tplJobs = <<>>
  /\ templates = {}
  /\ \E j \in DisplayJs, a \in DisplayAs : dom = <<j, a>>
  /\ baseHref = NULL
  /\ entered = [s \in PrepStates |-> 0]
  /\ trig = <<>>
  /\ notes = [pageLoaded |-> 0, pageReady |-> 0]
  /\ cycle = NoCycle
  /\ call = NoCall
  /\ tplLog = NoTplLog
  /\ renders = NoRenders
  /\ intervalsSet = <<>>
  /\ observers = <<>>
  /\ listeners = [i \in DOMAIN dom |-> 0]
  /\ socket = NoSocket
  /\ instances = OneInstance
  /\ blapyInstance = OneActivated
  /\ opts = [animation |-> FALSE]

NextDisplay ==
  \/ Start
  \/ PageLoaded_enterState
  \/ PreparePage_enterState
  \/ PreparePage_setBlapyUrl
  \/ PreparePage_setBlapyJsonTemplates_enterState
  \/ PreparePage_setBlapyUpdateOnDisplay_blapyJsonTemplatesIsSet
  \/ PreparePage_setBlapyUpdateOnDisplay_loadUrl
  \/ IntersectionObserver_callback
  \/ PageReady_loadUrl
  \/ PageReady_postData
  \/ PageReady_reloadBlock
  \/ ProcessPageChange_loadUrl
  \/ TimerFires
  \/ RequestResolvedJson
  \/ RequestRejected
  \/ ProcessPageChange_pageLoaded
  \/ ProcessPageChange_errorOnLoadingPage
  \/ setBlapyJsonTemplates
  \/ TemplateManager_processJsonUpdate
  \/ TemplateManager_injectFinalHtml_setTimeout
  \/ EventNotDefined

SpecDisplay == InitDisplay /\ [][NextDisplay]_vars

\* the live container that was the i-th before the merge, after it
After(i) == cycle.after[i - Cardinality({g \in cycle.gone : g < i})]

\* the node of the page the i-th live container was matched with
Match(i) == cycle.page[aBlapyContainer(cycle.mbefore[i], cycle.page)]

\* the attributes of the container element
Attrs(c) == [name |-> c.name, id |-> c.id, content |-> c.content,
             update |-> c.update, rule |-> c.rule, applyon |-> c.applyon,
             tplId |-> c.tplId, tplFile |-> c.tplFile, init |-> c.init]

----------------------------------------------------------------------------
(* C1 *)

\* the state changes managerBlapy allows
StateChanges ==
  { <<"DefaultState", "PageLoaded">>,
    <<"PageLoaded", "PreparePage">>,
    <<"PreparePage", "PreparePage_setBlapyJsonTemplates">>,
    <<"PreparePage_setBlapyJsonTemplates", "PreparePage_setBlapyUpdateOnDisplay">>,
    <<"PreparePage_setBlapyUpdateOnDisplay", "PageReady">>,
    <<"PageReady", "ProcessPageChange">>,
    <<"ProcessPageChange", "PageReady">> }

AfterReady == {"PageReady", "ProcessPageChange"}

\* C1: after activation the states follow PageLoaded, PreparePage,
\* PreparePage_setBlapyJsonTemplates, PreparePage_setBlapyUpdateOnDisplay,
\* PageReady in that order, no preparation state is entered twice and all
\* four were entered once when PageReady is reached; from then on the state
\* only changes between PageReady and ProcessPageChange.
C1_StateOrder ==
  /\ [](\A s \in PrepStates : entered[s] <= 1)
  /\ [](fsmState \in AfterReady => \A s \in PrepStates : entered[s] = 1)
  /\ [][fsmState' # fsmState => <<fsmState, fsmState'>> \in StateChanges]_vars

\* a cycle was merged, another one failed and a trigger waited meanwhile
C1_Witness ==
  /\ fsmState = "PageReady"
  /\ cycle.phase = "failed"
  /\ notes.pageReady = 2
  /\ \E t \in DOMAIN trig : trig[t].deferred /\ trig[t].handled = 1

----------------------------------------------------------------------------
(* C2 *)

\* C2: at most one main request is in flight at any time.
C2_OneRequest == Cardinality(requests) <= 1

\* a request is in flight while a later trigger waits for its redelivery
C2_Witness ==
  /\ Cardinality(requests) = 1
  /\ \E ev \in timers : ev.name \in {"loadUrl", "postData"}

----------------------------------------------------------------------------
(* C3 *)

\* a trigger that waits: its event is delayed, or back in the queue
Waiting(t) ==
  \/ \E ev \in timers : ev.tid = t /\ ev.name \in FetchEvents
  \/ \E k \in DOMAIN queue : queue[k].tid = t /\ queue[k].name \in FetchEvents

\* no deferred trigger is still to be handled
AllDeferredHandled ==
  \A t \in DOMAIN trig : trig[t].deferred => trig[t].handled = 1

\* C3: a trigger deferred in ProcessPageChange or in
\* PreparePage_setBlapyUpdateOnDisplay is not dropped: until it is handled
\* its event waits, under its own name and with its own payload, whatever is
\* deferred after it; it is never handled twice; and the deferred triggers
\* are all handled in PageReady in the end (again and again, as long as
\* triggers are raised).
C3_DeferredHandledOnce ==
  /\ [](\A t \in DOMAIN trig : trig[t].handled <= 1)
  /\ [](\A t \in DOMAIN trig :
         trig[t].deferred /\ trig[t].handled = 0 => Waiting(t))
  /\ []<>AllDeferredHandled

----------------------------------------------------------------------------
(* C4 *)

\* C4: whenever the FSM is in ProcessPageChange it eventually is in
\* PageReady again.
C4_ProcessingEnds == (fsmState = "ProcessPageChange") ~> (fsmState = "PageReady")

----------------------------------------------------------------------------
(* C5 *)

\* C5: when the request of a loadUrl/postData cycle failed, the error was
\* notified once, the FSM is back in PageReady and the live DOM is what it
\* was when the trigger was accepted (no template job wrote it meanwhile).
C5_FailureLeavesDom ==
  cycle.phase = "failed" /\ cycle.kind = "postData" /\ cycle.quiet =>
    /\ cycle.errors = 1
    /\ fsmState = "PageReady"
    /\ cycle.after = cycle.before

----------------------------------------------------------------------------
(* C6 *)

\* C6: from activation the FSM eventually reaches PageReady and the
\* page-ready notification is emitted.
C6_ReachesReady == <>(fsmState = "PageReady" /\ notes.pageReady >= 1)

----------------------------------------------------------------------------
(* C10 *)

\* the node of the page a live container is matched with has an allow-list
HasApplyon(c, page) ==
  aBlapyContainer(c, page) # 0 /\ page[aBlapyContainer(c, page)].applyon # <<>>

Listed(id, applyon) == \E n \in DOMAIN applyon : applyon[n] = id

\* C10: in a finished merge, a live container matched with a node that has
\* a data-blapy-applyon list was merged if and only if the id of the
\* instance that triggered the cycle is in the list; if not, it has the
\* attributes and the content it had.
C10_ApplyonFilter ==
  cycle.phase = "merged" =>
    \A i \in DOMAIN cycle.mbefore :
      HasApplyon(cycle.mbefore[i], cycle.page) =>
        /\ i \in cycle.merged <=> Listed(cycle.origin, Match(i).applyon)
        /\ i \notin cycle.merged =>
             /\ Attrs(After(i)) = Attrs(cycle.mbefore[i])
             /\ After(i).inner = cycle.mbefore[i].inner

----------------------------------------------------------------------------
(* C7 *)

\* C7: a live container merged under the strategy update (or none) with a
\* node of the same data-blapy-container-content, force-update not set, is
\* after the merge what it was before, content and attributes.
C7_SameFingerprintNoop ==
  cycle.phase = "merged" =>
    \A i \in cycle.merged :
      ( /\ cycle.applied[i] \in {NULL, "update"}
        /\ Match(i).content = cycle.mbefore[i].content
        /\ cycle.params.forceUpdate = 0 ) =>
      i \notin cycle.gone /\ After(i) = cycle.mbefore[i]

----------------------------------------------------------------------------
(* C8 *)

\* C8: a live container whose name matches no node of the page is after
\* the merge what it was before, whatever happens to the other containers.
C8_UnmatchedUnchanged ==
  cycle.phase = "merged" =>
    \A i \in DOMAIN cycle.mbefore :
      aBlapyContainer(cycle.mbefore[i], cycle.page) = 0 =>
        i \notin cycle.gone /\ After(i) = cycle.mbefore[i]

----------------------------------------------------------------------------
(* C9 *)

\* the strategies that put the incoming content in the document themselves
HtmlStrategies == {NULL, "update", "force-update", "append", "prepend", "replace"}

\* the live node's strategy is authoritative
LocalWins(c, f) == c.rule = "local" \/ (f.update = "json" /\ c.update # "json")

\* C9 (as amended): the strategy applied is the incoming node's
\* data-blapy-update, unless the live node has data-blapy-update-rule=local
\* or the incoming node says json while the live node does not; then the
\* live node's own data-blapy-update is applied and, for update,
\* force-update, append, prepend and replace, the live element stays in the
\* document with its attributes: only its inner content may change.
C9_LocalRuleAmended ==
  cycle.phase = "merged" =>
    \A i \in cycle.merged :
      LET c == cycle.mbefore[i]
          f == Match(i)
      IN  /\ cycle.applied[i] = (IF LocalWins(c, f) THEN c.update ELSE f.update)
          /\ (LocalWins(c, f) /\ cycle.applied[i] \in HtmlStrategies) =>
               i \notin cycle.gone /\ Attrs(After(i)) = Attrs(c)

\* a live container with update-rule=local and its own strategy append got
\* the incoming content after its own, under its own attributes
C9_Witness ==
  /\ cycle.phase = "merged"
  /\ \E i \in cycle.merged :
       /\ cycle.mbefore[i].rule = "local"
       /\ cycle.mbefore[i].update = "append"
       /\ Match(i).update = "update"
       /\ cycle.applied[i] = "append"
       /\ After(i).inner = <<"x", "y">>
       /\ Attrs(After(i)) = Attrs(cycle.mbefore[i])

\* C9 (as stated): the strategy applied is the incoming node's
\* data-blapy-update unless the live node has data-blapy-update-rule=local;
\* then the live node's own is applied and, for every strategy, the live
\* element stays in the document with its attributes.
C9_LocalRuleStated ==
  cycle.phase = "merged" =>
    \A i \in cycle.merged :
      LET c == cycle.mbefore[i]
          f == Match(i)
      IN  /\ cycle.applied[i] = (IF c.rule = "local" THEN c.update ELSE f.update)
          /\ c.rule = "local" =>
               i \notin cycle.gone /\ Attrs(After(i)) = Attrs(c)

----------------------------------------------------------------------------
(* C11 *)

\* two entries of the array bear the same id
SameIdTwice(data) ==
  \E j, k \in DOMAIN data : j < k /\ data[j].id = data[k].id

\* C11: with append strategy unique (key id), whatever batches were merged,
\* the array kept in data-blapy-json-data never holds two entries with the
\* same id, whether the id is a number or a string.
C11_UniqueNoDuplicate ==
  \A i \in DOMAIN dom :
    dom[i].update = "json-append" /\ dom[i].appendStrategy = "unique" =>
      ~SameIdTwice(dom[i].jsonData)

----------------------------------------------------------------------------
(* C12 *)

\* C12: a json-append container with a cap N > 0 (data-blapy-json-max-items)
\* never has more than N entries in its accumulated array, whatever the
\* batches and the append strategy.
C12_MaxItems ==
  \A i \in DOMAIN dom :
    dom[i].update = "json-append" /\ dom[i].maxItems > 0 =>
      Len(dom[i].jsonData) <= dom[i].maxItems

\* a batch of two items was merged into a full array of two, cap 2
C12_Witness ==
  /\ cycle.phase = "merged"
  /\ 1 \in cycle.merged
  /\ cycle.mbefore[1].maxItems = 2
  /\ Len(cycle.mbefore[1].jsonData) = 2
  /\ Match(1).json.ok
  /\ Len(Match(1).json.items) = 2
  /\ Len(dom[1].jsonData) = 2
  /\ dom[1].jsonData # cycle.mbefore[1].jsonData

----------------------------------------------------------------------------
(* C13 *)

\* E followed by the items of B whose id is not yet in the array
RECURSIVE RefUnique(_, _)
RefUnique(E, B) ==
  IF B = <<>> THEN E
  ELSE RefUnique(IF \E k \in DOMAIN E : E[k].id = Head(B).id THEN E
                 ELSE Append(E, Head(B)),
                 Tail(B))

\* the reference result of one json-append merge
RefAppend(E, B, strategy, N) ==
  LET all == IF strategy = "start" THEN B \o E
             ELSE IF strategy = "unique" THEN RefUnique(E, B)
             ELSE E \o B
      n   == Len(all)
  IN  IF N > 0 /\ n > N
      THEN IF strategy = "start" THEN SubSeq(all, 1, N)
           ELSE SubSeq(all, n - N + 1, n)
      ELSE all

\* C13: after one json-append merge of the batch B into the array E the
\* array is the reference result: end, E then B; start, B then E; unique, E
\* then the items of B whose id is not already present; then the cap N keeps
\* the first N items under start and the last N items otherwise.
C13_AppendResult ==
  cycle.phase = "merged" =>
    \A i \in cycle.merged :
      cycle.applied[i] = "json-append" /\ Match(i).json.ok =>
        After(i).jsonData =
          RefAppend(cycle.mbefore[i].jsonData, Match(i).json.items,
                    cycle.mbefore[i].appendStrategy, cycle.mbefore[i].maxItems)

----------------------------------------------------------------------------
(* C14 *)

\* C14: a string that is encoded by utoa and then decoded by atou comes
\* back as it was, non-ASCII characters and percent signs included.
C14_RoundTrip ==
  call.fn = "decoded" => call.res.ok /\ call.res.val = call.arg

----------------------------------------------------------------------------
(* C16 *)

\* C16: a post-processing function that returns a value that is no object
\* is a no-op: an error is logged and the dataset passed on is the one that
\* was current before the function was called.
C16_NonObjectKeepsPrevious ==
  call.fn = "_applyProcessDataFunctions" /\ call.last = "bad" =>
    /\ call.data = call.before
    /\ call.errors > call.errorsBefore

----------------------------------------------------------------------------
(* C17 *)

\* every element without an index got its 1-based position, the others
\* kept theirs
IndicesSet(arg, res) ==
  /\ Len(res.items) = Len(arg.items)
  /\ \A i \in DOMAIN arg.items :
       res.items[i].blapyIndex =
         IF arg.items[i].blapyIndex = NoIndex THEN i ELSE arg.items[i].blapyIndex

\* C17 (as amended): annotation gives the 1-based position as blapyIndex to
\* every element that lacks one and overwrites no index; it sets blapyFirst
\* on the first element and blapyLast on the last one, and leaves the
\* markers the elements came with; annotating again changes nothing.
C17_IndexAnnotationAmended ==
  call.fn = "_addBlapyIndices" =>
    /\ call.n = 1 =>
         /\ IndicesSet(call.arg, call.res)
         /\ \A i \in DOMAIN call.arg.items :
              /\ call.res.items[i].blapyFirst <=> (i = 1 \/ call.arg.items[i].blapyFirst)
              /\ call.res.items[i].blapyLast <=>
                   (i = Len(call.arg.items) \/ call.arg.items[i].blapyLast)
    /\ call.n = 2 => call.res = call.prev

\* an array of three: the second element had no index and got 2, the third
\* kept its own, the second kept the first-marker it came with
C17_Witness ==
  /\ call.fn = "_addBlapyIndices"
  /\ call.n = 1
  /\ Len(call.arg.items) = 3
  /\ call.arg.items[2].blapyIndex = NoIndex
  /\ call.arg.items[2].blapyFirst
  /\ call.arg.items[3].blapyIndex = 9
  /\ call.res.items[2].blapyIndex = 2
  /\ call.res.items[3].blapyIndex = 9
  /\ call.res.items[1].blapyFirst
  /\ call.res.items[3].blapyLast

\* C17 (as stated): the same, but after annotation blapyFirst is carried by
\* the first element only and blapyLast by the last element only.
C17_IndexAnnotationStated ==
  call.fn = "_addBlapyIndices" =>
    /\ call.n = 1 =>
         /\ IndicesSet(call.arg, call.res)
         /\ \A i \in DOMAIN call.arg.items :
              /\ call.res.items[i].blapyFirst <=> i = 1
              /\ call.res.items[i].blapyLast <=> i = Len(call.arg.items)
    /\ call.n = 2 => call.res = call.prev

----------------------------------------------------------------------------
(* C15 *)

\* the objects found anywhere in a dataset, the dataset included
RECURSIVE AllObjects(_)
AllObjects(obj) ==
  {obj} \cup UNION { AllObjects(obj[n].c) : n \in {m \in DOMAIN obj : obj[m].v = "object"} }

\* the object has the field key and its value equals val
FieldEquals(obj, key, val) ==
  \E n \in DOMAIN obj : obj[n].v # "object" /\ obj[n].k = key /\ Str(obj[n].v) = val

\* the clause selects the object: its field key equals val; an empty val
\* selects every object that has the field; an empty key selects every
\* object that has a field equal to val
ClauseSelects(obj, key, val) ==
  \/ FieldEquals(obj, key, val)
  \/ val = "" /\ \E n \in DOMAIN obj : obj[n].v # "object" /\ obj[n].k = key
  \/ key = "" /\ \E n \in DOMAIN obj : obj[n].v # "object" /\ Str(obj[n].v) = val

\* the result has no object twice, and two objects that one clause found in
\* an array are in the order of the array
FirstSeenOrder(c) ==
  /\ \A j, k \in DOMAIN c.res.objs : j < k => c.res.objs[j] # c.res.objs[k]
  /\ Len(c.clauses) = 1 /\ (\A n \in DOMAIN c.arg : c.arg[n].v = "object") =>
       \A j, k \in DOMAIN c.res.objs : j < k =>
         \E n, m \in DOMAIN c.arg :
           n < m /\ c.arg[n].c = c.res.objs[j] /\ c.arg[m].c = c.res.objs[k]

\* C15 (as amended): the search filter returns the objects found anywhere
\* in the dataset that a clause selects, each once, in first-seen order;
\* a clause key==value selects the objects whose field key equals value, a
\* clause with an empty value those that have the field key, a clause with
\* an empty key those that have a field equal to value.
C15_SearchFilterAmended ==
  call.fn = "_applyInitSearch" /\ call.done /\ call.clauses # <<>> =>
    /\ call.res.found
    /\ {call.res.objs[j] : j \in DOMAIN call.res.objs} =
         {o \in AllObjects(call.arg) :
            \E n \in DOMAIN call.clauses :
              ClauseSelects(o, call.clauses[n][1], call.clauses[n][2])}
    /\ FirstSeenOrder(call)

\* ids 1, 2, 3 (here n1, n2, n2) with status active, inactive, active and the
\* filter status==active: the first and the third object, in that order
C15_Witness ==
  /\ call.fn = "_applyInitSearch" /\ call.done
  /\ call.clauses = << <<"status", "active">> >>
  /\ call.arg = JsonArray(<< << Prim("id", "n1"), Prim("status", "active") >>,
                             << Prim("id", "n2"), Prim("status", "inactive") >>,
                             << Prim("id", "n2"), Prim("status", "active") >> >>)
  /\ call.res.objs = << << Prim("id", "n1"), Prim("status", "active") >>,
                        << Prim("id", "n2"), Prim("status", "active") >> >>

\* C15 (as stated): the search filter returns the objects found anywhere in
\* the dataset whose field key equals value for a clause key==value, each
\* once, in first-seen order.
C15_SearchFilterStated ==
  call.fn = "_applyInitSearch" /\ call.done /\ call.clauses # <<>> =>
    /\ call.res.found
    /\ {call.res.objs[j] : j \in DOMAIN call.res.objs} =
         {o \in AllObjects(call.arg) :
            \E n \in DOMAIN call.clauses :
              FieldEquals(o, call.clauses[n][1], call.clauses[n][2])}
    /\ FirstSeenOrder(call)

----------------------------------------------------------------------------
(* C18 *)

\* the other containers are, after the cycle, what the same page would have
\* made of them in a document without the i-th container
SiblingsAsIfAbsent(i) ==
  LET alt == MergePage(Remaining(cycle.mbefore, {i}), cycle.page, cycle.params,
                       baseHref)
  IN  \A j \in DOMAIN cycle.mbefore \ {i} :
        LET j2 == IF j > i THEN j - 1 ELSE j
        IN  /\ j \in cycle.gone <=> j2 \in alt.gone
            /\ j \notin cycle.gone =>
                 After(j) = alt.dom[j2 - Cardinality({g \in alt.gone : g < j2})]

\* C18: a failure while one container is merged is logged, not thrown, and
\* the other containers of the fragment are merged as if the failing
\* container were not there.
C18_FailureContained ==
  cycle.phase = "merged" =>
    \A i \in cycle.logged \cup cycle.thrown :
      /\ i \in cycle.logged
      /\ SiblingsAsIfAbsent(i)

----------------------------------------------------------------------------
(* C19 *)

\* the strategies the merge engine has a branch for
BuiltIn == {NULL, "update", "force-update", "append", "prepend", "json-append",
            "replace", "custom", "remove", "json"}

\* C19: a strategy that is no built-in one and names no function of the
\* animation extension (or no extension is loaded) is reported as an error,
\* the live container is left unchanged, and the cycle ends in PageReady
\* (the incoming node has no embedded payload to decode first).
C19_PluginNotFound ==
  cycle.phase = "merged" =>
    \A i \in cycle.merged :
      /\ cycle.applied[i] \notin BuiltIn
      /\ (cycle.applied[i] \notin PluginNames \/ ~opts.animation)
      /\ Match(i).bin = <<>>
      => /\ i \in cycle.logged
         /\ i \notin cycle.gone
         /\ After(i) = cycle.mbefore[i]
         /\ fsmState = "PageReady"

----------------------------------------------------------------------------
(* C20 *)

\* C20: for each template file path the Instance issues at most one network
\* fetch and writes the cache entry at most once, whatever the interleaving
\* of the preparations (initial, reloadBlock) and of the answers; a later
\* resolution of the path issues no request.
C20_FetchedOnce ==
  \A f \in TplFiles : tplLog.fetched[f] <= 1 /\ tplLog.written[f] <= 1

----------------------------------------------------------------------------
(* C21 *)

\* the resolution of the i-th block has started
Started(i) == dom[i].rule = "local"

\* a call awaits the template file of the i-th block
InFlight(i) ==
  \E k \in DOMAIN tplJobs :
    /\ tplJobs[k].fetching
    /\ ~Head(tplJobs[k].todo).det
    /\ Head(tplJobs[k].todo).i = i

Completed(i) == Started(i) /\ ~InFlight(i)

Preparing == fsmState \in PrepStates

\* C21: while the page is prepared the templates of the json blocks are
\* resolved one at a time in document order: a block's resolution is not
\* started before that of every json block before it has completed, at most
\* one template fetch is in flight, and the cache is filled in document
\* order.
C21_OneAtATime ==
  Preparing =>
    /\ \A i, j \in jsonBlocks(dom, NULL) : i < j /\ Started(j) => Completed(i)
    /\ Cardinality({k \in DOMAIN tplJobs : tplJobs[k].fetching}) <= 1
    /\ \A i, j \in jsonBlocks(dom, NULL) :
         /\ i < j
         /\ dom[i].tplFile # NULL
         /\ dom[j].tplFile \in templates
         => dom[i].tplFile \in templates

\* the second block's file is awaited, the first block's file is cached
C21_Witness ==
  /\ Preparing
  /\ \E i, j \in jsonBlocks(dom, NULL) :
       /\ i < j
       /\ dom[i].tplFile \in templates
       /\ dom[j].tplFile \notin templates
       /\ InFlight(j)

----------------------------------------------------------------------------
(* C22 *)

\* the Blapy objects built on the element
InstancesOn(el) == {k \in DOMAIN instances : instances[k].root = el}

\* C22 as stated: there is never more than one Instance on a root node.
C22_OnePerRootStated ==
  \A el \in Elements : Cardinality(InstancesOn(el)) <= 1

\* C22: element.Blapy(options) on an element that bears an Instance built
\* by element.Blapy returns that Instance, whatever the options, and builds
\* nothing; so at most one Instance per element is built by element.Blapy
\* (new Blapy(element, options) builds one more each time it is called).
C22_ReactivationAmended ==
  /\ [](\A el \in Elements :
          /\ Cardinality({k \in InstancesOn(el) : instances[k].via = "Blapy"}) <= 1
          /\ blapyInstance[el] # 0 =>
               /\ instances[blapyInstance[el]].root = el
               /\ instances[blapyInstance[el]].via = "Blapy")
  /\ [][call'.fn = "Blapy" /\ blapyInstance[call'.el] # 0 =>
          /\ instances' = instances
          /\ blapyInstance' = blapyInstance
          /\ call'.ret = blapyInstance[call'.el]]_vars

\* element.Blapy was called again, with other options, and returned the
\* Instance the first call built
C22_Witness ==
  /\ call.fn = "Blapy"
  /\ call.ret # 0
  /\ instances[call.ret].via = "Blapy"
  /\ instances[call.ret].options # call.options

----------------------------------------------------------------------------
(* C23 *)

\* C23: a message of the remote channel whose command is not in
\* options.allowedCommands raises no event on the FSM, dispatches nothing
\* through the passthrough trigger and changes no state of the Instance; so
\* a command reaches the FSM or the passthrough only if it is in the list.
C23_AllowList ==
  [][/\ socket'.received # socket.received
     /\ socket'.last.type = "blapy_command"
     /\ socket'.last.command \notin socket.allowedCommands
     => /\ UNCHANGED <<fsmState, queue, timers, requests, tplJobs, templates, dom,
                       trig, notes, cycle, tplLog, entered>>
        /\ socket'.dispatched = socket.dispatched]_vars

\* postData was received by a socket that allows other commands only, after
\* an allowed command had started a cycle
C23_Witness ==
  /\ socket.last = [type |-> "blapy_command", command |-> "postData"]
  /\ "postData" \notin socket.allowedCommands
  /\ socket.allowedCommands # {}
  /\ trig # <<>>
  /\ queue = <<>>

----------------------------------------------------------------------------
(* C24 *)

\* the control parameters of the request, and how it is encoded
ControlsSent(r) ==
  /\ <<"blapycall", "1">> \in r.sent.pairs
  /\ <<"blapyaction", IF r.given.blapyaction = NULL THEN "update"
                      ELSE r.given.blapyaction>> \in r.sent.pairs
  /\ <<"blapyobjectid", r.params.blapyobjectid>> \in r.sent.pairs
  /\ r.params.blapyobjectid # NULL
  /\ r.sent.enc = (IF r.sent.method = "GET" THEN "query" ELSE "form")
  /\ trig[r.tid].name = "loadUrl" => r.sent.method = "GET"
  /\ r.given.method \notin {NULL, "get"} /\ trig[r.tid].name # "loadUrl"
       => r.sent.method = r.given.method

\* C24 as stated: every main request carries blapycall=1, blapyaction
\* (update when the caller gives none), blapyobjectid and all the parameters
\* of the caller, query-encoded for GET and form-encoded otherwise, and
\* loadUrl always uses GET.
C24_RequestParamsStated ==
  \A r \in requests :
    /\ ControlsSent(r)
    /\ r.given.extra # "absent" => \E pr \in r.sent.pairs : pr[1] = "extra"

\* C24: the same, but a parameter of the caller whose value is null is sent
\* (as the text null) in a query only: a form-encoded body leaves it out.
C24_RequestParamsAmended ==
  \A r \in requests :
    /\ ControlsSent(r)
    /\ r.given.extra = "v" => <<"extra", "v">> \in r.sent.pairs
    /\ r.given.extra = "null" =>
         IF r.sent.enc = "query" THEN <<"extra", "null">> \in r.sent.pairs
         ELSE ~ \E pr \in r.sent.pairs : pr[1] = "extra"
    /\ r.given.extra = "absent" => ~ \E pr \in r.sent.pairs : pr[1] = "extra"

\* a postData without method nor action and with a null parameter is in
\* flight
C24_Witness ==
  \E r \in requests :
    /\ trig[r.tid].name = "postData"
    /\ r.given = [method |-> NULL, blapyaction |-> NULL, extra |-> "null"]
    /\ r.sent.method = "POST"

----------------------------------------------------------------------------
\* C25: reloadBlock with embeddingBlockId = j re-initialises the json blocks
\* named j only: in no step that follows does a block of another name
\* change or leave the document, no template job holds a block of another
\* name, every request issued is the init fetch of j, and the page is not
\* prepared again (the FSM enters none of the preparation states).
C25_OnlyNamedBlock ==
  [][ /\ \A i \in DOMAIN dom :
           dom[i].name # "j" => i \in DOMAIN dom' /\ dom'[i] = dom[i]
      /\ \A k \in DOMAIN tplJobs' : \A n \in DOMAIN tplJobs'[k].todo :
           EntryNode(tplJobs'[k].todo[n], dom').name = "j"
      /\ \A r \in requests' : r.embed = "j"
      /\ entered' = entered
      /\ fsmState' \notin PrepStates ]_vars

----------------------------------------------------------------------------
\* the cycle is over: the response was merged and no callback awaits
Settled == cycle.phase = "merged" /\ renders.todo = <<>>

\* the live container that was the i-th before the merge, as it is now
Now(i) == dom[i - Cardinality({g \in cycle.gone : g < i})]

\* the callback of the i-th container awaited processJsonUpdate, which
\* ended as err says
RenderEnded(i, errs) ==
  \E k \in DOMAIN renders.done :
    /\ renders.done[k].was = cycle.mbefore[i]
    /\ renders.done[k].err \in errs

\* the merge of the i-th container got JSON text to parse: its strategy is
\* json or json-append and the payload, if any, was decoded
ReadsJson(i) ==
  cycle.applied[i] \in JsonStrategies /\ atou(Match(i).bin).ok

\* C26: the JSON text a json or json-append merge reads is parsed as it is
\* and, if that fails, as the content of an HTML fragment.  When both fail,
\* an error is logged, the container is as it was before the cycle
\* (content, attributes, accumulated data), no error notification is
\* emitted and the FSM is in PageReady; when one succeeds, the data is
\* taken: the json-append array is the merged one, the json render went on
\* past the parsing.
C26_ParseTwiceThenFail ==
  Settled =>
    \A i \in cycle.merged :
      ReadsJson(i) =>
        IF jsonSource(Match(i)).ok
        THEN IF cycle.applied[i] = "json-append"
             THEN Now(i).jsonData =
                    jsonAppend(cycle.mbefore[i], jsonSource(Match(i)).items).jsonData
             ELSE RenderEnded(i, {"none", "warned"})
                  \/ (RenderEnded(i, {"logged"}) /\ ~getTemplate(cycle.mbefore[i]))
        ELSE /\ Now(i) = cycle.mbefore[i]
             /\ i \in cycle.logged \/ RenderEnded(i, {"logged"})
             /\ cycle.errors = 0
             /\ fsmState = "PageReady"

----------------------------------------------------------------------------
\* C27: once a cycle is over, each container it merged by json-append is
\* either as it was before the cycle or fully updated: its accumulated
\* array (data-blapy-json-data) is the merged one and its content is that
\* array rendered.
C27_AppendAtomic ==
  Settled =>
    \A i \in cycle.merged :
      cycle.applied[i] = "json-append" =>
        \/ Now(i) = cycle.mbefore[i]
        \/ /\ Now(i).jsonData =
                jsonAppend(cycle.mbefore[i], jsonSource(Match(i)).items).jsonData
           /\ Now(i).inner = Rendered(Now(i).jsonData)

----------------------------------------------------------------------------
\* the JSON text the merge of the i-th container parsed
Parsed(i) == jsonSource(Match(i))

\* the i-th container took the data: json-append merged it in its array,
\* json rendered it (if the container has a template)
TookData(i, items) ==
  IF cycle.applied[i] = "json-append"
  THEN Now(i).jsonData = jsonAppend(cycle.mbefore[i], items).jsonData
  ELSE IF getTemplate(cycle.mbefore[i])
       THEN Now(i).inner = Rendered(items) /\ RenderEnded(i, {"none"})
       ELSE Now(i) = cycle.mbefore[i]

\* C28: when the JSON parsed for a container is an object with blapy-data
\* and blapy-container-name, the data taken is the value of blapy-data if
\* the name is that of the container; if the name is another one, a
\* warning is logged and the container is left as it was.  JSON without
\* these keys is taken as it is.
C28_ContainerNameChecked ==
  Settled =>
    \A i \in cycle.merged :
      (ReadsJson(i) /\ Parsed(i).ok /\ ~Parsed(i).html) =>
        IF Parsed(i).wrap \notin {NULL, cycle.mbefore[i].name}
        THEN Now(i) = cycle.mbefore[i] /\ RenderEnded(i, {"warned"})
        ELSE TookData(i, Parsed(i).items)

----------------------------------------------------------------------------
\* the block a job is preparing: the head of its todo
Current(k) == Head(tplJobs[k].todo)

\* the jobs that are preparing a json block inside the i-th live container
PreparingIn(i) ==
  {k \in DOMAIN tplJobs :
     /\ tplJobs[k].todo # <<>>
     /\ ~Current(k).det /\ Current(k).i = i /\ Current(k).sub # 0}

\* nothing is left to do: no event, no microtask, no timer, no job
Quiet == Idle /\ renders.timers = <<>> /\ tplJobs = <<>>

\* C29: the template preparation of the json blocks inside a rendered json
\* container works on blocks that are in the document (it starts after the
\* content was committed), prepares one block of the container at a time,
\* and, once nothing is left to do, has started every json block that is
\* inside the container (setBlapyContainerJsonTemplate marked it local).
C29_NestedAfterCommit ==
  /\ \A k \in DOMAIN tplJobs : \A n \in DOMAIN tplJobs[k].todo :
       LET e == tplJobs[k].todo[n]
       IN  (~e.det /\ e.sub # 0) => e.sub \in DOMAIN dom[e.i].subs
  /\ \A i \in DOMAIN dom : Cardinality(PreparingIn(i)) <= 1
  /\ Quiet => \A i \in DOMAIN dom : \A n \in DOMAIN dom[i].subs :
                dom[i].subs[n].rule = "local"

----------------------------------------------------------------------------
\* what the callback of the i-th container awaited, if it awaited
RenderOf(i) ==
  {renders.done[k] : k \in {n \in DOMAIN renders.done :
                               renders.done[n].was = cycle.mbefore[i]}}

\* the notifications and the writes of the callback of the i-th container,
\* the awaited part included
StepsOf(i) ==
  cycle.steps[i] \o (IF RenderOf(i) = {} THEN <<>> ELSE The(RenderOf(i)).steps)

Count(s, x) == Cardinality({k \in DOMAIN s : s[k] = x})

\* Blapy_afterContentChange went to the element that is the i-th container
\* in the document now, to the root when the container was removed
ScopedToLive(i) ==
  IF i \in cycle.gone THEN cycle.event[i] = 0
  ELSE IF RenderOf(i) = {} THEN cycle.event[i] = i
  ELSE The(RenderOf(i)).event = i - Cardinality({g \in cycle.gone : g < i})

\* C30: every container matched in a merge cycle gets exactly one
\* before-change notification, before any write to it, and exactly one
\* after-change notification, after the strategy, dispatched on the node
\* as it is in the live document (the parent for remove); a container
\* that is not merged gets none, and there is no before without an after.
C30_BeforeAndAfterChange ==
  Settled =>
    \A i \in DOMAIN cycle.mbefore :
      IF i \in cycle.merged
      THEN /\ Count(StepsOf(i), "before") = 1
           /\ Count(StepsOf(i), "after") = 1
           /\ StepsOf(i)[1] = "before"
           /\ StepsOf(i)[Len(StepsOf(i))] = "after"
           /\ ScopedToLive(i)
      ELSE StepsOf(i) = <<>>

----------------------------------------------------------------------------
\* the text of data-blapy-updateblock-time is a number that is not zero
NonZeroTime(c) == c.time \in {"1000"}

----------------------------------------------------------------------------
\* C32: the visibility of an element flagged
\* data-blapy-updateblock-ondisplay raises at most one trigger (loadUrl or
\* reloadBlock) for as long as the element is in the document, however
\* many observers were registered on it.
C32_VisibilityOneShot == \A i \in DOMAIN dom : dom[i].shown <= 1

\* an element whose visibility raised its trigger is observed again
C32_Witness ==
  \E i \in DOMAIN dom :
    /\ dom[i].shown = 1
    /\ \E n \in DOMAIN observers : i \in observers[n]

----------------------------------------------------------------------------
\* a json block that is to get its data when it is displayed
Lazy(c) == c.update = "json" /\ c.ondisplay # NULL /\ c.init # NULL

\* this step raises the postData of _initializeJsonBlock for the block
InitFetch(c) ==
  \E n \in DOMAIN queue' :
    /\ queue'[n].name = "postData"
    /\ queue'[n].tid > Len(trig)
    /\ queue'[n].data.aUrl = c.init
    /\ queue'[n].data.embeddingBlockId = c.name

\* this step raises reloadBlock for the block
ReloadRaised(c) ==
  \E n \in DOMAIN queue' :
    /\ queue'[n].name = "reloadBlock"
    /\ queue'[n].tid > Len(trig)
    /\ queue'[n].data.embeddingBlockId = c.name

\* this step is the handling of a reloadBlock, or goes on with what one began
Forced ==
  \/ Handles("PageReady", "reloadBlock")
  \/ \E k \in DOMAIN tplJobs : tplJobs[k].force

\* C33: a json block flagged data-blapy-updateblock-ondisplay gets no init
\* fetch (the postData to its data-blapy-template-init) before it has
\* appeared, unless a reloadBlock forces it; when it appears, reloadBlock
\* is raised for it, and the handling of that reloadBlock raises its init
\* fetch.
C33_InitOnDisplay ==
  [][ \A i \in DOMAIN dom :
        Lazy(dom[i]) =>
          /\ InitFetch(dom[i]) => (dom[i].appear = "done" \/ Forced)
          /\ (/\ Len(dom') = Len(dom)
              /\ dom[i].appear = NULL /\ dom'[i].appear = "done")
                => ReloadRaised(dom[i])
          /\ (/\ Handles("PageReady", "reloadBlock")
              /\ Head(queue).data.embeddingBlockId = dom[i].name)
                => InitFetch(dom[i]) ]_vars
----------------------------------------------------------------------------
(* C34 *)

\* the value at the end of the dot-path, Undefined when a segment of the
\* path is not a property of the value reached so far
RECURSIVE Follow(_, _)
Follow(value, keys) ==
  IF keys = <<>> THEN value
  ELSE IF Property(value, Head(keys)) = Undefined THEN Undefined
  ELSE Follow(Property(value, Head(keys)), Tail(keys))

\* C34: the from-property extraction returns the value found by following
\* the whole dot-path in the document, and the original JSON data whenever
\* the path does not resolve completely, at its first segment or later.
C34_FromProperty ==
  call.fn = "_applyInitFromProperty" /\ call.done =>
    call.res = IF Follow(call.arg, call.keys) # Undefined
               THEN Follow(call.arg, call.keys) ELSE call.arg

----------------------------------------------------------------------------
(* C35 *)

\* a clause of the filter selects an object of the dataset
Matches(c) ==
  \E o \in AllObjects(c.arg) :
    \E n \in DOMAIN c.clauses : ClauseSelects(o, c.clauses[n][1], c.clauses[n][2])

\* C35: the search filter step returns the filtered list of the matching
\* objects, or the original data if no clause matches any object or if no
\* filter is configured.
C35_SearchOrOriginal ==
  call.fn = "_applyInitSearch" /\ call.done =>
    IF call.clauses # <<>> /\ Matches(call)
    THEN call.res.found /\ call.res.objs # <<>>
    ELSE ~call.res.found
----------------------------------------------------------------------------
(* C36 *)

\* C36: the logger of the Instance follows options.debug and
\* options.logLevel (their defaults when not given), whatever debugIfsm and
\* LogLevelIfsm are: a message of a level is written iff the level is within
\* options.logLevel and, for warnings and notices, options.debug is set.
C36_LoggerFollowsOptions ==
  call.fn = "new Blapy" /\ call.done =>
    /\ call.logger.debug = Spread(call.options)["debug"]
    /\ call.logger.logLevel = Spread(call.options)["logLevel"]
    /\ call.errorLevel # 0 =>
         (call.written <=>
            /\ call.errorLevel <= Spread(call.options)["logLevel"]
            /\ (call.errorLevel >= 2 => Spread(call.options)["debug"]))
----------------------------------------------------------------------------
(* C37 *)

\* a callback of pageLoaded commits the merge of its container: the DOM is
\* written and Blapy_afterContentChange is sent
MergeCommitted == Len(renders'.done) > Len(renders.done)

\* C37: every container merge of a cycle is applied before the FSM is back
\* in PageReady: no merge of a json or json-append container writes the DOM
\* or sends its after-change notification once the FSM has left
\* ProcessPageChange.
C37_MergedBeforeReady ==
  [][MergeCommitted => fsmState = "ProcessPageChange"]_vars
----------------------------------------------------------------------------
(* C38 *)

\* C38: a single click on a custom link raises exactly one loadUrl, however
\* many times the links of the page were normalized again.
C38_OneLoadUrlPerClick ==
  call.fn = "click" => call.raised = 1
----------------------------------------------------------------------------
(* C39 *)

\* C39: after disconnect() the socket stays disconnected until connect() is
\* called again by the application: isConnected is not true and no
\* reconnection timer is pending.
C39_StaysDisconnected ==
  socket.disconnected => ~socket.isConnected /\ ~socket.reconnectTimer
----------------------------------------------------------------------------
(* C40 *)

\* C40: after a JSON render the container holds exactly its own template
\* element, ahead of the rendered output, and no other one, also when the
\* output holds json blocks with templates of their own.
C40_OwnTemplatesKept ==
  \A k \in DOMAIN renders.done :
    renders.done[k].set =>
      /\ dom[renders.done[k].i].tpl = renders.done[k].was.tpl
      /\ dom[renders.done[k].i].tplOthers = 0

====
